---- MODULE Spec2Model ----
(***************************************************************************)
(* A model of the tripoli IIIF validation engine: the path-addressed       *)
(* diagnostic log, the per-resource validators (manifest, sequence,        *)
(* canvas, annotation, image content), the cross-resource dispatch         *)
(* (_sub_validate), fail-fast, and the severity coercion wrappers.         *)
(*                                                                         *)
(* The program is sequential and deterministic; every Python function is   *)
(* an operator that takes the machine state m (all validator instances,    *)
(* the class-level bindings of log_error / log_warning, the pending        *)
(* exception, the configuration, the run's history) and returns the new    *)
(* machine state, with a return value where the function has one:          *)
(* [m |-> state, r |-> value].  A pending exception (m.exc) makes every    *)
(* later statement a no-op until a try/finally handles it.                 *)
(***************************************************************************)
EXTENDS Integers, Sequences, FiniteSets, TLC

VARIABLES
    inst,             \* validator name -> instance attributes
    cls_log_error,    \* the function BaseValidator.log_error is bound to
    cls_log_warning,  \* the function BaseValidator.log_warning is bound to
    caught,           \* caught_errors sets of the mute_errors closures
    exc,              \* exception that reached the top-level caller
    cfg,              \* the IIIFValidator's settings
    hist,             \* what the current top-level call has done (history)
    stack,            \* the _validate calls in progress, outermost first
    done,             \* outcome of each finished top-level call (history)
    frames,           \* active coercion wrappers (coercion specification)
    last,             \* the step just taken among the wrappers (history)
    cmp,              \* last _compare_dicts call (schema specification)
    runs,             \* number of top-level calls made so far
    probe,            \* last direct call of a validator method (history)
    router            \* the IIIFValidator of tripoli.py and its linked validators

vars ==
    <<inst, cls_log_error, cls_log_warning, caught, exc, cfg, hist, stack, done,
      frames, last, cmp, runs, probe, router>>

----------------------------------------------------------------------------
(* Bounds of the model. *)

\* Longest 'canvases' list of a generated document.
MaxCanvases == 2
\* Most top-level calls made on the same validator objects.
MaxRuns == 2
\* Deepest nesting of coercion wrappers.
MaxDepth == 3
\* Most log_error / log_warning calls made inside one wrapped scenario.
MaxLogCalls == 3

----------------------------------------------------------------------------
(* JSON values: tagged records. *)

Str(s) == [t |-> "str", s |-> s]
Num(n) == [t |-> "int", n |-> n]
List(xs) == [t |-> "list", items |-> xs]
Dict(d) == [t |-> "dict", d |-> d]
None == [t |-> "null"]
EmptyDict == Dict(<<>>)

isinstance(v, ty) == v.t = ty

\* Python truthiness of a JSON value.
Truthy(v) ==
    CASE v.t = "null" -> FALSE
      [] v.t = "str" -> v.s # ""
      [] v.t = "int" -> v.n # 0
      [] v.t = "list" -> Len(v.items) > 0
      [] v.t = "dict" -> DOMAIN v.d # {}
      [] OTHER -> TRUE

\* dict.get(key) of a dict value.
Get(v, k) == IF k \in DOMAIN v.d THEN v.d[k] ELSE None

\* d[key] = x on a dict value.
SetItem(v, k, x) == Dict((k :> x) @@ v.d)

RECURSIVE Restrict(_, _)
\* The items of the function d whose keys are in ks.
Restrict(d, ks) ==
    IF ks = {} THEN <<>>
    ELSE LET k == CHOOSE x \in ks : TRUE
         IN  (k :> d[k]) @@ Restrict(d, ks \ {k})

----------------------------------------------------------------------------
(* Path: a tuple of field names and list indices. *)

Field(f) == [f |-> f]
Index(i) == [i |-> i]
IsIndex(step) == DOMAIN step = {"i"}
EmptyPath == <<>>

\* Path.__add__ with a str or an int.
PathAdd(p, step) == Append(p, step)

RECURSIVE _no_index_path(_)
_no_index_path(p) ==
    IF p = <<>> THEN <<>>
    ELSE IF IsIndex(Head(p)) THEN _no_index_path(Tail(p))
    ELSE <<Head(p)>> \o _no_index_path(Tail(p))

----------------------------------------------------------------------------
(* Log entries and logs. *)

\* ValidatorLogEntry(msg, path)
Entry(msg, p) == [msg |-> msg, path |-> p]

\* ValidatorLogEntry.__eq__ / __hash__: index-insensitive path and message.
EntryKey(e) == [msg |-> e.msg, path |-> _no_index_path(e.path)]
EntryEq(a, b) == EntryKey(a) = EntryKey(b)

\* A log: its entries in insertion order and its deduplication flag.
\* A plain Python set of entries deduplicates by __eq__.
ValidatorLog(unique_logging) == [unique_logging |-> unique_logging, entries |-> <<>>]
PySet == ValidatorLog(TRUE)

LogHas(log, e) == \E i \in 1..Len(log.entries) : EntryEq(log.entries[i], e)
LogAdd(log, e) ==
    IF log.unique_logging /\ LogHas(log, e) THEN log
    ELSE [log EXCEPT !.entries = Append(@, e)]

RECURSIVE LogAddAll(_, _)
LogAddAll(log, es) ==
    IF es = <<>> THEN log ELSE LogAddAll(LogAdd(log, Head(es)), Tail(es))

\* a | b, honouring the receiver's deduplication policy.
LogUnion(a, b) == LogAddAll(a, b.entries)
LogNonEmpty(log) == Len(log.entries) > 0
LogKeys(log) == {EntryKey(log.entries[i]) : i \in 1..Len(log.entries)}
LogSet(log) == {log.entries[i] : i \in 1..Len(log.entries)}

----------------------------------------------------------------------------
(* Validator instances. *)

Validators == {"manifest", "sequence", "canvas", "annotation", "image_content", "base"}

\* BaseValidator.__init__ and SubValidationMixin.__init__
NewInstance ==
    [errors |-> PySet, warnings |-> PySet, is_valid |-> "None",
     path |-> EmptyPath, json |-> None, corrected_doc |-> None,
     canvas_uri |-> None, emb |-> "None"]

\* History of a top-level call: Errors logged, check functions begun after
\* the first Error, and the check functions called.
NoHist == [doc |-> None, nerr |-> 0, late |-> 0, calls |-> <<>>]

\* Where a list field stands when its loop of _sub_validate calls begins.
NoSusp ==
    [key |-> "", child |-> "", items |-> <<>>, path |-> EmptyPath, single |-> FALSE,
     pos |-> 0, objs |-> <<>>]

\* What _validate found right after _reset (history).
NoStart ==
    [errors |-> PySet, warnings |-> PySet, corrected_doc |-> None, path |-> EmptyPath]

\* The functions a class attribute log_error / log_warning can be bound to.
F_log_error == [fn |-> "log_error"]
F_log_warning == [fn |-> "log_warning"]
F_patched(k) == [fn |-> "patched_log_error", k |-> k]

\* The step just taken among the coercion wrappers: what it was, inside which wrapper, and what the
\* logs and the bindings were before it (for an exit: when the wrapper
\* was entered).
NoLast ==
    [op |-> "none", kind |-> "", msg |-> "", n |-> 0,
     errors |-> PySet, warnings |-> PySet,
     log_error |-> F_log_error, log_warning |-> F_log_warning, ret |-> PySet]

\* No validator method has been called directly yet.
NoProbe == [op |-> "none", self |-> ""]

Machine ==
    [inst |-> inst, log_error |-> cls_log_error, log_warning |-> cls_log_warning,
     caught |-> caught, exc |-> "none", cfg |-> cfg, h |-> hist,
     susp |-> NoSusp, start |-> NoStart]

Ret(m, r) == [m |-> m, r |-> r]
Raise(m, e) == [m EXCEPT !.exc = e]
Ok(m) == m.exc = "none"

----------------------------------------------------------------------------
(* Logging. *)

\* BaseValidator.log_warning (the original function)
log_warning(m, self, field, msg) ==
    IF m.cfg.collect_warnings
    THEN [m EXCEPT !.inst[self].warnings =
              LogAdd(@, Entry(msg, PathAdd(m.inst[self].path, Field(field))))]
    ELSE m

\* A variant whose fail-fast branch records the Error itself, whatever
\* collect_errors says.
log_error_fail_fast_records(m, self, field, msg) ==
    LET e == Entry(msg, PathAdd(m.inst[self].path, Field(field)))
    IN  IF m.cfg.fail_fast
        THEN Raise([m EXCEPT !.inst[self].errors = LogAdd(@, e), !.h.nerr = @ + 1],
                   "FailFastException")
        ELSE IF m.cfg.collect_errors
        THEN [m EXCEPT !.inst[self].errors = LogAdd(@, e), !.h.nerr = @ + 1]
        ELSE m

\* BaseValidator.log_error (the original function)
log_error(m, self, field, msg) ==
    LET m1 == IF m.cfg.collect_errors
              THEN [m EXCEPT !.inst[self].errors =
                        LogAdd(@, Entry(msg, PathAdd(m.inst[self].path, Field(field)))),
                             !.h.nerr = @ + 1]
              ELSE m
    IN  IF m.cfg.fail_fast THEN Raise(m1, "FailFastException") ELSE m1

\* mute_errors.patched_log_error: caught_errors is a plain set.
patched_log_error(m, k, self, field, msg) ==
    [m EXCEPT !.caught[k] =
         LogAdd(@, Entry(msg, PathAdd(m.inst[self].path, Field(field))))]

\* Calling the function object f as f(self, field, msg).
Invoke(m, f, self, field, msg) ==
    CASE f.fn = "log_error" -> log_error(m, self, field, msg)
      [] f.fn = "log_warning" -> log_warning(m, self, field, msg)
      [] f.fn = "patched_log_error" -> patched_log_error(m, f.k, self, field, msg)

\* Calling a method or a function object on a value: defined with the
\* validators' methods below.
RECURSIVE Apply(_, _, _, _)

\* self.name(*args, value): the method is looked up by its name.
Method(name, args) == [fn |-> name, args |-> args]
Call(m, self, name, args, value) == Apply(m, self, Method(name, args), value)

\* self.log_error(field, msg) and self.log_warning(field, msg): looked up on
\* the class at the time of the call.
call_log_error(m, self, field, msg) ==
    IF Ok(m) THEN Call(m, self, "log_error", <<field, msg>>, None).m ELSE m
call_log_warning(m, self, field, msg) ==
    IF Ok(m) THEN Call(m, self, "log_warning", <<field, msg>>, None).m ELSE m
----------------------------------------------------------------------------
(* Messages: a format string and the values formatted into it. *)

Msg(fmt, args) == [fmt |-> fmt, args |-> args]

----------------------------------------------------------------------------
(* Class constants. *)

PRESENTATION_API_URI == "http://iiif.io/api/presentation/2/context.json"
IMAGE_API_2 == "http://iiif.io/api/image/2/context.json"
IMAGE_API_1 == "http://iiif.io/api/image/1/context.json"

COMMON_FIELDS ==
    {"label", "metadata", "description", "thumbnail", "attribution", "license", "logo",
     "@id", "@type", "viewingHint", "seeAlso", "service", "related", "rendering", "within"}

HTML_ALLOWED_FIELDS ==
    {<<"description">>, <<"attribution">>, <<"metadata", "value">>,
     <<"metadata", "label">>, <<"@value">>}
HTML_ALLOWED_ATTRIBUTES(tag) ==
    CASE tag = "a" -> {"href"}
      [] tag = "img" -> {"src", "alt"}
      [] OTHER -> {}
HTML_ALLOWED_TAGS == {"a", "b", "br", "i", "img", "p", "span"}
HTML_FORBIDDEN_TAGS == {"script", "style", "object", "form", "input"}

KNOWN_FIELDS(self) ==
    CASE self = "manifest" ->
           COMMON_FIELDS \cup {"viewingDirection", "navDate", "sequences", "structures", "@context"}
      [] self = "sequence" -> COMMON_FIELDS \cup {"viewingDirection", "startCanvas", "canvases"}
      [] self = "canvas" -> COMMON_FIELDS \cup {"height", "width", "otherContent", "images"}
      [] self = "annotation" -> COMMON_FIELDS \cup {"motivation", "resource", "on"}
      [] self = "image_content" -> COMMON_FIELDS \cup {"@context", "height", "width", "format"}
      [] OTHER -> {}

FORBIDDEN_FIELDS(self) ==
    CASE self = "manifest" ->
           {"format", "height", "width", "startCanvas", "first", "last", "total", "next", "prev",
            "startIndex", "collections", "manifests", "members", "canvases", "resources",
            "otherContent", "images", "ranges"}
      [] self = "sequence" ->
           {"format", "height", "width", "navDate", "first", "last", "total", "next", "prev",
            "startIndex", "collections", "manifests", "sequences", "structures", "resources",
            "otherContent", "images", "ranges"}
      [] self = "canvas" ->
           {"format", "viewingDirection", "navDate", "startCanvas", "first", "last", "total",
            "next", "prev", "startIndex", "collections", "manifests", "members", "sequences",
            "structures", "canvases", "resources", "ranges"}
      [] self = "annotation" ->
           {"format", "height", "width", "viewingDirection", "navDate", "startCanvas", "first",
            "last", "total", "next", "prev", "startIndex", "collections", "manifests", "members",
            "sequences", "structures", "canvases", "resources", "otherContent", "images", "ranges"}
      [] self = "image_content" ->
           {"viewingDirection", "navDate", "startCanvas", "first", "last", "total",
            "next", "prev", "startIndex", "collections", "manifests", "members",
            "sequences", "structures", "canvases", "resources", "otherContent",
            "images", "ranges"}
      [] OTHER -> {}

REQUIRED_FIELDS(self) ==
    CASE self = "manifest" -> {"label", "@context", "@id", "@type", "sequences"}
      [] self = "sequence" -> {"@type", "canvases"}
      [] self = "canvas" -> {"label", "@id", "@type", "height", "width"}
      [] self = "annotation" -> {"@type", "on", "motivation"}
      [] self = "image_content" -> {"@type", "@id"}
      [] OTHER -> {}

RECOMMENDED_FIELDS(self) ==
    CASE self = "manifest" -> {"metadata", "description", "thumbnail"}
      [] self = "annotation" -> {"@id"}
      [] OTHER -> {}

VIEW_HINTS(self) ==
    CASE self = "manifest" -> {"individuals", "paged", "continuous"}
      [] self = "sequence" -> {"individuals", "paged", "continuous"}
      [] self = "canvas" -> {"non-paged", "facing-pages"}
      [] OTHER -> {}

\* ManifestValidator.VIEW_HINTS is a list; the other classes hold a set or a
\* dict, whose membership test hashes the value.
VIEW_HINTS_hashes(self) == self # "manifest"

VIEW_DIRS(self) ==
    CASE self \in {"manifest", "sequence"} ->
           {"left-to-right", "right-to-left", "top-to-bottom", "bottom-to-top"}
      [] OTHER -> {}
VIEW_DIRS_hashes(self) == self # "manifest"

Hashable(v) == v.t \notin {"list", "dict"}

\* The order in which the keys of a document, and the names of a field set,
\* are iterated: documents list their keys in this order.
KeyOrder ==
    <<"@context", "@id", "@type", "label", "metadata", "description", "thumbnail", "logo",
      "attribution", "license", "related", "rendering", "service", "seeAlso", "within",
      "viewingHint", "viewingDirection", "navDate", "startCanvas", "format", "height",
      "width", "motivation", "on", "resource", "sequences", "structures", "canvases",
      "images", "otherContent", "other_content", "profile", "@value", "@language",
      "value", "first", "last", "total", "next", "prev", "startIndex", "collections",
      "manifests", "members", "resources", "ranges", "field_1", "field_2", "field_3",
      "unknown_key">>

\* The members of the set S in iteration order.
Ordered(S) == SelectSeq(KeyOrder, LAMBDA k : k \in S)

----------------------------------------------------------------------------
(* What the library calls tell about the strings of the model. *)

CanvasUris == <<"http://c1", "http://c2", "http://c3", "http://c4">>

HttpUris ==
    {"http://m", "http://s", "http://r", "http://x", "https://x",
     PRESENTATION_API_URI, IMAGE_API_2, IMAGE_API_1}
    \cup {CanvasUris[i] : i \in 1..Len(CanvasUris)}
HttpSchemes == {"http", "https"}

\* urllib.parse.urlparse(value): the scheme and whether there is a netloc.
urlparse(s) ==
    CASE s = "https://x" -> [scheme |-> "https", netloc |-> TRUE]
      [] s \in HttpUris -> [scheme |-> "http", netloc |-> TRUE]
      [] s = "ftp://x" -> [scheme |-> "ftp", netloc |-> TRUE]
      [] s = "http:x" -> [scheme |-> "http", netloc |-> FALSE]
      [] OTHER -> [scheme |-> "", netloc |-> FALSE]

\* value.startswith("urn:uuid:") and uuid.UUID(...) of the rest.
startswith_urn_uuid(s) == s \in {"urn:uuid:good", "urn:uuid:bad"}
uuid_valid(s) == s = "urn:uuid:good"

Elem(tag, attrs, children) == [tag |-> tag, attrs |-> attrs, children |-> children]

\* What the regular expressions and ET.fromstring find in a string:
\* tags (_XML_TAG_REGEX), lt (value[0] == "<"), comments, cdata, and the
\* parsed tree (None when ET.fromstring raises ParseError).
Markup(tags, lt, comments, cdata, tree) ==
    [tags |-> tags, lt |-> lt, comments |-> comments, cdata |-> cdata, tree |-> tree]
HtmlInfo(s) ==
    CASE s = "<p><br/></p>" ->
           Markup(TRUE, TRUE, FALSE, FALSE, Elem("p", <<>>, <<Elem("br", <<>>, <<>>)>>))
      [] s = "<script>x</script>" ->
           Markup(TRUE, TRUE, FALSE, FALSE, Elem("script", <<>>, <<>>))
      [] s = "<a target='t'>x</a>" ->
           Markup(TRUE, TRUE, FALSE, FALSE, Elem("a", <<"target">>, <<>>))
      [] s = "<span><foo>x</foo></span>" ->
           Markup(TRUE, TRUE, FALSE, FALSE, Elem("span", <<>>, <<Elem("foo", <<>>, <<>>)>>))
      [] s = "<a href='u'>x</a>" ->
           Markup(TRUE, TRUE, FALSE, FALSE, Elem("a", <<"href">>, <<>>))
      [] s = "<p><script>x</script></p>" ->
           Markup(TRUE, TRUE, FALSE, FALSE, Elem("p", <<>>, <<Elem("script", <<>>, <<>>)>>))
      [] s = "<foo><script>x</script></foo>" ->
           Markup(TRUE, TRUE, FALSE, FALSE, Elem("foo", <<>>, <<Elem("script", <<>>, <<>>)>>))
      [] s = "<p><b>x</b><input/></p>" ->
           Markup(TRUE, TRUE, FALSE, FALSE,
                  Elem("p", <<>>, <<Elem("b", <<>>, <<>>), Elem("input", <<>>, <<>>)>>))
      [] s = "<p><script>x</script><a target='t'>y</a></p>" ->
           Markup(TRUE, TRUE, FALSE, FALSE,
                  Elem("p", <<>>, <<Elem("script", <<>>, <<>>), Elem("a", <<"target">>, <<>>)>>))
      [] s = "<foo>x</foo>" ->
           Markup(TRUE, TRUE, FALSE, FALSE, Elem("foo", <<>>, <<>>))
      [] s = "<foo><foo>x</foo></foo>" ->
           Markup(TRUE, TRUE, FALSE, FALSE, Elem("foo", <<>>, <<Elem("foo", <<>>, <<>>)>>))
      [] s = "<foo><bar>x</bar></foo>" ->
           Markup(TRUE, TRUE, FALSE, FALSE, Elem("foo", <<>>, <<Elem("bar", <<>>, <<>>)>>))
      [] s = "<p><foo/><foo/></p>" ->
           Markup(TRUE, TRUE, FALSE, FALSE,
                  Elem("p", <<>>, <<Elem("foo", <<>>, <<>>), Elem("foo", <<>>, <<>>)>>))
      [] s = "<foo><a target='t'>x</a></foo>" ->
           Markup(TRUE, TRUE, FALSE, FALSE, Elem("foo", <<>>, <<Elem("a", <<"target">>, <<>>)>>))
      [] s = "<p>x<!-- c --></p>" ->
           Markup(TRUE, TRUE, TRUE, FALSE, Elem("p", <<>>, <<>>))
      [] s = "<p><![CDATA[x]]></p>" ->
           Markup(TRUE, TRUE, FALSE, TRUE, Elem("p", <<>>, <<>>))
      \* _XML_CDATA_REGEX is compiled without re.DOTALL: '.' stops at a newline.
      [] s = "<p><![CDATA[a\nb]]></p>" ->
           Markup(TRUE, TRUE, FALSE, FALSE, Elem("p", <<>>, <<>>))
      [] s = "<![CDATA[a\nb]]>" -> Markup(FALSE, TRUE, FALSE, FALSE, None)
      [] s = "this is <a>bad</a>" -> Markup(TRUE, FALSE, FALSE, FALSE, None)
      [] s = "<p>unclosed" -> Markup(TRUE, TRUE, FALSE, FALSE, None)
      [] s = "<!-- c -->" -> Markup(FALSE, TRUE, TRUE, FALSE, None)
      [] s = "<![CDATA[x]]>" -> Markup(FALSE, TRUE, FALSE, TRUE, None)
      [] OTHER -> Markup(FALSE, FALSE, FALSE, FALSE, None)

----------------------------------------------------------------------------
(* Path suffix test. *)

\* Path.no_index_endswith(path) for a tuple of field names: walks both
\* reversed sequences together (zip_longest).
RECURSIVE endswith_loop_either(_, _)
\* A variant that also accepts a path shorter than the suffix.
endswith_loop_either(a, b) ==
    IF b = <<>> \/ a = <<>> THEN TRUE
    ELSE IF a[Len(a)] # Field(b[Len(b)]) THEN FALSE
    ELSE endswith_loop_either(SubSeq(a, 1, Len(a) - 1), SubSeq(b, 1, Len(b) - 1))
RECURSIVE endswith_loop(_, _)
endswith_loop(a, b) ==
    IF b = <<>> THEN TRUE
    ELSE IF a = <<>> THEN FALSE
    ELSE IF a[Len(a)] # Field(b[Len(b)]) THEN FALSE
    ELSE endswith_loop(SubSeq(a, 1, Len(a) - 1), SubSeq(b, 1, Len(b) - 1))
\* A variant that compares the path as it is, indices included.
no_index_endswith_with_index(p, suffix) == endswith_loop(p, suffix)
no_index_endswith(p, suffix) == endswith_loop(_no_index_path(p), suffix)

----------------------------------------------------------------------------
(* _check_html *)

\* A variant of the walk that does not descend into an element's children.
check_html_children_skipped(m, self, field, children, i) == Ret(m, TRUE)

\* check_html_element(elem): returns whether the element is valid.
RECURSIVE check_html_element(_, _, _, _)
RECURSIVE check_html_children(_, _, _, _, _)
check_html_element(m, self, field, elem) ==
    IF ~Ok(m) THEN Ret(m, FALSE)
    ELSE IF elem.tag \in HTML_FORBIDDEN_TAGS
    THEN Ret(call_log_error(m, self, field,
                 Msg("Forbidden tag '<{}>' in html.", <<Str(elem.tag)>>)), FALSE)
    ELSE LET bad == SelectSeq(elem.attrs, LAMBDA a : a \notin HTML_ALLOWED_ATTRIBUTES(elem.tag))
         IN  IF bad # <<>>
             THEN Ret(call_log_error(m, self, field,
                          Msg("HTML tag '<{}>' not allowed attribute '{}'.",
                              <<Str(elem.tag), Str(Head(bad))>>)),
                      FALSE)
             ELSE LET m1 == IF elem.tag \notin HTML_ALLOWED_TAGS
                            THEN call_log_warning(m, self, field,
                                     Msg("HTML tag '<{}>' of uncertain validity", <<Str(elem.tag)>>))
                            ELSE m
                  IN  check_html_children(m1, self, field, elem.children, 1)
check_html_children(m, self, field, children, i) ==
    IF ~Ok(m) THEN Ret(m, FALSE)
    ELSE IF i > Len(children) THEN Ret(m, TRUE)
    ELSE LET r == check_html_element(m, self, field, children[i])
         IN  IF ~Ok(r.m) \/ ~r.r THEN Ret(r.m, FALSE)
             ELSE check_html_children(r.m, self, field, children, i + 1)

_check_html(m, self, field, value) ==
    IF ~Ok(m) THEN m
    ELSE LET temp_path == PathAdd(m.inst[self].path, Field(field))
             field_allowed_html == \E x \in HTML_ALLOWED_FIELDS : no_index_endswith(temp_path, x)
             info == HtmlInfo(value.s)
             field_is_valid_xml == info.tags /\ info.tree # None
         IN  IF info.tags /\ ~info.lt
             THEN call_log_error(m, self, field,
                      Msg("If field contains HTML, it must start with character '<'.", <<>>))
             ELSE IF info.comments
             THEN call_log_error(m, self, field, Msg("XML comments not allowed.", <<>>))
             ELSE IF info.cdata
             THEN call_log_error(m, self, field, Msg("CDATA sections not allowed.", <<>>))
             ELSE IF ~info.tags THEN m
             ELSE IF ~field_allowed_html
             THEN call_log_error(m, self, field, Msg("HTML not allowed in this field.", <<>>))
             ELSE IF ~field_is_valid_xml
             THEN call_log_error(m, self, field,
                      Msg("Field contains tags but is not valid HTML.", <<>>))
             ELSE check_html_element(m, self, field, info.tree).m

----------------------------------------------------------------------------
(* URI and string checks. *)

_string_uri(m, self, field, value, http) ==
    IF ~Ok(m) THEN Ret(m, value)
    ELSE IF ~isinstance(value, "str")
    THEN Ret(call_log_error(m, self, field, Msg("URI is not string: '{}'", <<value>>)), value)
    ELSE LET m1 == Call(m, self, "_check_html", <<field>>, value).m
             pieces == urlparse(value.s)
             m2 == IF ~(pieces.scheme # "" /\ pieces.netloc)
                   THEN call_log_error(m1, self, field, Msg("URI is not valid: '{}'", <<value>>))
                   ELSE m1
             m3 == IF http /\ pieces.scheme \notin HttpSchemes
                   THEN call_log_error(m2, self, field, Msg("URI must be http: '{}'", <<value>>))
                   ELSE m2
         IN  Ret(m3, value)

_uri_type(m, self, field, value, http) ==
    IF ~Ok(m) THEN Ret(m, value)
    ELSE IF isinstance(value, "str") THEN Call(m, self, "_string_uri", <<field, http>>, value)
    ELSE IF isinstance(value, "dict")
    THEN LET emb_uri == Get(value, "@id")
         IN  IF ~Truthy(emb_uri)
             THEN Ret(call_log_error(m, self, field, Msg("URI not found: '{}'", <<value>>)), value)
             ELSE LET r == Call(m, self, "_string_uri", <<field, http>>, emb_uri)
                  IN  Ret(r.m, SetItem(value, "@id", r.r))
    ELSE Ret(call_log_error(m, self, field, Msg("Can't parse URI: {}", <<value>>)), value)

_http_uri_type(m, self, field, value) == Call(m, self, "_uri_type", <<field, TRUE>>, value)

RECURSIVE uri_list(_, _, _, _, _, _)
uri_list(m, self, field, items, i, acc) ==
    IF ~Ok(m) \/ i > Len(items) THEN Ret(m, List(acc))
    ELSE LET r == Call(m, self, "_uri_type", <<field>>, items[i])
         IN  uri_list(r.m, self, field, items, i + 1, Append(acc, r.r))

_repeatable_uri_type(m, self, field, value) ==
    IF ~Ok(m) THEN Ret(m, value)
    ELSE IF isinstance(value, "list") THEN uri_list(m, self, field, value.items, 1, <<>>)
    ELSE Call(m, self, "_uri_type", <<field>>, value)

RECURSIVE string_list(_, _, _, _, _)
string_list(m, self, field, value, i) ==
    IF ~Ok(m) \/ i > Len(value.items) THEN m
    ELSE string_list(
             IF ~isinstance(value.items[i], "str")
             THEN call_log_error(m, self, field, Msg("Overly nested strings: '{}'", <<value>>))
             ELSE m,
             self, field, value, i + 1)

_repeatable_string_type(m, self, field, value) ==
    IF ~Ok(m) THEN Ret(m, value)
    ELSE IF isinstance(value, "str")
    THEN Ret(Call(m, self, "_check_html", <<field>>, value).m, value)
    ELSE IF isinstance(value, "list") THEN Ret(string_list(m, self, field, value, 1), value)
    ELSE Ret(call_log_error(m, self, field,
                 Msg("Got '{}' when expecting string or repeated string.", <<value>>)), value)

\* BaseValidator.id_field.  The 'finally: return value' of the urn:uuid
\* branch discards an exception raised while logging the invalid UUID.
id_field(m, self, value) ==
    IF ~Ok(m) THEN Ret(m, value)
    ELSE IF ~isinstance(value, "str") THEN Ret(Raise(m, "AttributeError"), value)
    ELSE IF startswith_urn_uuid(value.s)
    THEN LET m1 == IF ~uuid_valid(value.s)
                   THEN call_log_error(m, self, "@id", Msg("Invalid UUID in @id.", <<>>))
                   ELSE m
         IN  Ret([m1 EXCEPT !.exc = "none"], value)
    ELSE _http_uri_type(m, self, "@id", value)

height_field(m, self, value) ==
    IF ~Ok(m) THEN Ret(m, value)
    ELSE IF ~isinstance(value, "int")
    THEN Ret(call_log_error(m, self, "height", Msg("height must be int.", <<>>)), value)
    ELSE Ret(m, value)

width_field(m, self, value) ==
    IF ~Ok(m) THEN Ret(m, value)
    ELSE IF ~isinstance(value, "int")
    THEN Ret(call_log_error(m, self, "width", Msg("width must be int.", <<>>)), value)
    ELSE Ret(m, value)

\* BaseValidator._not_allowed(field, value)
_not_allowed(m, self, field, value) ==
    IF ~Ok(m) THEN Ret(m, value)
    ELSE Ret(call_log_error(m, self, field, Msg("'{}' is not allowed here", <<Str(field)>>)), value)

----------------------------------------------------------------------------
(* Schemas: ordered tables from a field name to a check function. *)

Fn(name) == [fn |-> name]
\* functools.partial(fn, field), or a bound call fn(field, value)
Partial(name, field) == Method(name, <<field>>)

_LangValPairs ==
    << <<"@language", Partial("_repeatable_string_type", "@language")>>,
       <<"@value", Partial("_repeatable_string_type", "@value")>> >>

_MetadataItemSchema ==
    << <<"label", Partial("_str_or_val_lang_type", "label")>>,
       <<"value", Partial("_str_or_val_lang_type", "value")>> >>

_common_fields_mapping ==
    << <<"@id", Fn("id_field")>>, <<"label", Fn("label_field")>>,
       <<"metadata", Fn("metadata_field")>>, <<"description", Fn("description_field")>>,
       <<"thumbnail", Fn("thumbnail_field")>>, <<"logo", Fn("logo_field")>>,
       <<"attribution", Fn("attribution_field")>>, <<"@type", Fn("type_field")>>,
       <<"license", Fn("license_field")>>, <<"related", Fn("related_field")>>,
       <<"rendering", Fn("rendering_field")>>, <<"service", Fn("service_field")>>,
       <<"seeAlso", Fn("seeAlso_field")>>, <<"within", Fn("within_field")>>,
       <<"viewingHint", Fn("viewing_hint_field")>> >>

ManifestSchema ==
    << <<"@context", Fn("context_field")>>, <<"structures", Fn("structures_field")>>,
       <<"sequences", Fn("sequences_field")>> >>

EmbSequenceSchema ==
    << <<"@type", Fn("type_field")>>, <<"@context", Fn("context_field")>>,
       <<"@id", Fn("id_field")>>, <<"startCanvas", Fn("startCanvas_field")>>,
       <<"viewingDirection", Fn("viewing_dir_field")>>,
       <<"viewingHint", Fn("viewing_hint_field")>>, <<"canvases", Fn("canvases_field")>> >>

\* 'canvases' maps to the two-argument method _not_allowed itself.
LinkedSequenceSchema ==
    << <<"@type", Fn("type_field")>>, <<"@id", Fn("id_field")>>,
       <<"canvases", Fn("_not_allowed")>> >>

CanvasSchema ==
    << <<"@id", Fn("id_field")>>, <<"@type", Fn("type_field")>>, <<"label", Fn("label_field")>>,
       <<"height", Fn("height_field")>>, <<"width", Fn("width_field")>>,
       <<"viewingHint", Fn("viewing_hint_field")>>,
       <<"other_content", Fn("other_content_field")>>, <<"images", Fn("images_field")>> >>

ImageSchema ==
    << <<"@id", Fn("id_field")>>, <<"@type", Fn("type_field")>>,
       <<"motivation", Fn("motivation_field")>>, <<"on", Fn("on_field")>>,
       <<"height", Fn("height_field")>>, <<"width", Fn("width_field")>>,
       <<"resource", Fn("resource_field")>> >>

ImageContentSchema ==
    << <<"@id", Fn("id_field")>>, <<"@type", Fn("type_field")>>,
       <<"height", Fn("height_field")>>, <<"width", Fn("width_field")>>,
       <<"service", Fn("service_field")>> >>

----------------------------------------------------------------------------
(* Coercion of severities: patching the class attributes. *)

\* Variants of the wrappers: one that patches nothing on the way in, one
\* that patches the other attribute, one that puts the original function
\* back on the way out.
coerce_enter_unpatched(m) == m
coerce_enter_other(m) == [m EXCEPT !.log_error = m.log_warning]
coerce_warnings_exit_original(m, old_log_warning) == [m EXCEPT !.log_warning = F_log_warning]

\* errors_to_warnings.coerce_errors: before and after the wrapped call.
coerce_errors_enter(m) == [m EXCEPT !.log_error = m.log_warning]
coerce_errors_exit(m, old_log_error) == [m EXCEPT !.log_error = old_log_error]

\* warnings_to_errors.coerce_warnings: before and after the wrapped call.
coerce_warnings_enter(m) == [m EXCEPT !.log_warning = m.log_error]
coerce_warnings_exit(m, old_log_warning) == [m EXCEPT !.log_warning = old_log_warning]

\* mute_errors: a fresh caught_errors set and the closure that fills it.
mute_errors_enter(m) ==
    [m EXCEPT !.caught = Append(@, PySet), !.log_error = F_patched(Len(m.caught) + 1)]
mute_errors_exit(m, old_log_error) == [m EXCEPT !.log_error = old_log_error]

----------------------------------------------------------------------------
(* The validation engine. *)

\* with self._temp_path(path): the path is put back on the way out.
temp_path_enter(m, self, path) == [m EXCEPT !.inst[self].path = path]
\* A variant without the 'finally': the path stays as the block set it.
temp_path_exit_kept(m, self, old_path) == m
temp_path_exit(m, self, old_path) == [m EXCEPT !.inst[self].path = old_path]

\* key in value, for the values 'in' accepts; the strings and lists of the
\* model hold no field name.
Contains(value, key) == isinstance(value, "dict") /\ key \in DOMAIN value.d
InRaises(value) == value.t \in {"int", "null"}

\* len(value) for the sized values; every non-empty string of the model has
\* more than one character.
PyLen(v) ==
    CASE v.t = "list" -> Len(v.items)
      [] v.t = "dict" -> Cardinality(DOMAIN v.d)
      [] v.t = "str" -> IF v.s = "" THEN 0 ELSE 2
      [] OTHER -> 0
LenRaises(v) == v.t \in {"int", "null"}

\* str(value) + "changed stuff" (the tests' fake_change)
fake_change_str(value) ==
    CASE value = Str("value") -> Str("valuechanged stuff")
      [] value = Str("other") -> Str("otherchanged stuff")
      [] OTHER -> Str("changed stuff")

\* A variant that hands out the same object instead of a copy.
copy_alias(objs, ref) == [objs |-> objs, ref |-> ref]

\* copy.copy(value): a new object with the same entries.  objs is the
\* sequence of the objects alive in the call.
copy_copy(objs, ref) == [objs |-> Append(objs, objs[ref]), ref |-> Len(objs) + 1]

RECURSIVE CallField(_, _, _, _, _)
RECURSIVE compare_loop(_, _, _, _, _, _, _, _)
RECURSIVE _compare_dicts(_, _, _, _)
RECURSIVE _str_or_val_lang_type(_, _, _, _)
RECURSIVE str_or_val_lang_list(_, _, _, _, _, _)
RECURSIVE _check_common_fields(_, _, _)
RECURSIVE _check_all_key_constraints(_, _, _, _)
RECURSIVE metadata_field(_, _, _)
RECURSIVE metadata_loop(_, _, _, _, _)

\* The loop of _compare_dicts over schema.items(), entries lo..hi in order;
\* the range is walked in halves, which keeps the evaluation shallow.  A
\* field that reaches its loop of _sub_validate calls leaves the loop here,
\* noting the entry and the objects to go on with.
compare_loop(m, self, schema, lo, hi, objs, value, corrected) ==
    IF ~Ok(m) \/ lo > hi THEN [m |-> m, objs |-> objs]
    ELSE IF lo < hi
    THEN LET mid == (lo + hi) \div 2
             l == compare_loop(m, self, schema, lo, mid, objs, value, corrected)
         IN  compare_loop(l.m, self, schema, mid + 1, hi, l.objs, value, corrected)
    ELSE LET key == schema[lo][1]
             fn == schema[lo][2]
         IN  IF key \in DOMAIN objs[value]
             THEN LET r == CallField(m, self, key, fn, objs[corrected][key])
                  IN  IF r.m.exc = "suspend"
                      THEN [m |-> [r.m EXCEPT !.susp.pos = lo, !.susp.objs = objs],
                            objs |-> objs]
                      ELSE IF ~Ok(r.m) THEN [m |-> r.m, objs |-> objs]
                      ELSE [m |-> r.m,
                            objs |-> [objs EXCEPT ![corrected] = SetItem(Dict(@), key, r.r).d]]
             ELSE [m |-> m, objs |-> objs]

\* BaseValidator._compare_dicts(schema, value).  Returns the corrected
\* object (r) and, for the checks, the argument object as the call left it.
_compare_dicts(m, self, schema, value) ==
    IF ~Ok(m) THEN [m |-> m, r |-> value, arg |-> value]
    ELSE IF ~isinstance(value, "dict")
    THEN \* 'key in value' raises on a number or null, and is false otherwise
         IF InRaises(value) /\ schema # <<>>
         THEN [m |-> Raise(m, "TypeError"), r |-> value, arg |-> value]
         ELSE [m |-> m, r |-> value, arg |-> value]
    ELSE LET c == copy_copy(<<value.d>>, 1)
             l == compare_loop(m, self, schema, 1, Len(schema), c.objs, 1, c.ref)
         IN  [m |-> l.m, r |-> Dict(l.objs[c.ref]), arg |-> Dict(l.objs[1])]

\* _compare_dicts taken up again after the loop of a list field: the
\* field's return value is stored and the remaining entries are walked.
compare_dicts_resume(m, self, schema, susp, ret) ==
    LET objs == [susp.objs EXCEPT ![2] = SetItem(Dict(@), susp.key, ret).d]
        l == compare_loop(m, self, schema, susp.pos + 1, Len(schema), objs, 1, 2)
    IN  [m |-> l.m, r |-> Dict(l.objs[2]), arg |-> Dict(l.objs[1])]

str_or_val_lang_list(m, self, field, items, i, acc) ==
    IF ~Ok(m) \/ i > Len(items) THEN Ret(m, List(acc))
    ELSE LET r == _str_or_val_lang_type(m, self, field, items[i])
         IN  str_or_val_lang_list(r.m, self, field, items, i + 1, Append(acc, r.r))

_str_or_val_lang_type(m, self, field, value) ==
    IF ~Ok(m) THEN Ret(m, value)
    ELSE IF isinstance(value, "str")
    THEN Ret(Call(m, self, "_check_html", <<field>>, value).m, value)
    ELSE IF isinstance(value, "list") THEN str_or_val_lang_list(m, self, field, value.items, 1, <<>>)
    ELSE IF isinstance(value, "dict")
    THEN IF "@value" \notin DOMAIN value.d
         THEN Ret(call_log_error(m, self, field,
                      Msg("Field has no '@value' key where one is required.", <<>>)), value)
         ELSE LET c == Call(m, self, "_compare_dicts", <<_LangValPairs>>, value)
              IN  Ret(c.m, c.r)
    ELSE Ret(call_log_error(m, self, field,
                 Msg("Illegal type (should be str, list, or dict)", <<>>)), value)

_metadata_entry(m, self, value) ==
    IF ~Ok(m) THEN Ret(m, value)
    ELSE IF ~isinstance(value, "dict")
    THEN Ret(call_log_error(m, self, "value", Msg("Entries must be dictionaries.", <<>>)), value)
    ELSE IF "label" \notin DOMAIN value.d
    THEN Ret(call_log_error(m, self, "label", Msg("metadata entries must have labels.", <<>>)), value)
    ELSE IF "value" \notin DOMAIN value.d
    THEN Ret(call_log_error(m, self, "value", Msg("metadata entries must have values", <<>>)), value)
    ELSE LET l == Call(m, self, "_str_or_val_lang_type", <<"label">>, Get(value, "label"))
             v == Call(l.m, self, "_str_or_val_lang_type", <<"value">>, Get(value, "value"))
         IN  Ret(v.m, Dict(("label" :> l.r) @@ ("value" :> v.r)))

metadata_loop(m, self, items, i, acc) ==
    IF ~Ok(m) \/ i > Len(items) THEN Ret(m, List(acc))
    ELSE LET old_path == m.inst[self].path
             m1 == temp_path_enter(m, self, PathAdd(old_path, Index(i - 1)))
             r == Call(m1, self, "_metadata_entry", <<>>, items[i])
             m2 == temp_path_exit(r.m, self, old_path)
         IN  metadata_loop(m2, self, items, i + 1, Append(acc, r.r))

metadata_field(m, self, value) ==
    IF ~Ok(m) THEN Ret(m, value)
    ELSE IF ~isinstance(value, "list")
    THEN Ret(call_log_error(m, self, "metadata", Msg("Metadata MUST be a list", <<>>)), value)
    ELSE LET old_path == m.inst[self].path
             m1 == temp_path_enter(m, self, PathAdd(old_path, Field("metadata")))
             r == Call(m1, self, "metadata_loop", <<>>, value)
         IN  Ret(temp_path_exit(r.m, self, old_path), r.r)

\* BaseValidator._check_required_fields(resource, r_dict, fields)
RECURSIVE _check_required_fields(_, _, _, _, _, _)
_check_required_fields(m, self, resource, r_dict, fields, i) ==
    IF ~Ok(m) \/ i > Len(fields) THEN m
    ELSE IF InRaises(r_dict) THEN Raise(m, "TypeError")
    ELSE _check_required_fields(
             IF ~Contains(r_dict, fields[i])
             THEN call_log_error(m, self, fields[i],
                      Msg("Key '{}' is required in '{}'", <<Str(fields[i]), Str(resource)>>))
             ELSE m,
             self, resource, r_dict, fields, i + 1)

\* BaseValidator._check_recommended_fields(resource, r_dict, fields)
RECURSIVE _check_recommended_fields(_, _, _, _, _, _)
_check_recommended_fields(m, self, resource, r_dict, fields, i) ==
    IF ~Ok(m) \/ i > Len(fields) THEN m
    ELSE IF ~isinstance(r_dict, "dict") THEN Raise(m, "AttributeError")
    ELSE _check_recommended_fields(
             IF ~Truthy(Get(r_dict, fields[i]))
             THEN call_log_warning(m, self, fields[i],
                      Msg("{} SHOULD have {} field.", <<Str(resource), Str(fields[i])>>))
             ELSE m,
             self, resource, r_dict, fields, i + 1)

\* BaseValidator._check_unknown_fields(resource, r_dict, fields)
RECURSIVE _check_unknown_fields(_, _, _, _, _, _)
_check_unknown_fields(m, self, resource, r_dict, fields, keys) ==
    IF ~Ok(m) \/ keys = <<>> THEN m
    ELSE _check_unknown_fields(
             IF Head(keys) \notin fields
             THEN call_log_warning(m, self, Head(keys),
                      Msg("Unknown key '{}' in '{}'", <<Str(Head(keys)), Str(resource)>>))
             ELSE m,
             self, resource, r_dict, fields, Tail(keys))

\* BaseValidator._check_forbidden_fields(resource, r_dict, fields)
RECURSIVE _check_forbidden_fields(_, _, _, _, _, _)
_check_forbidden_fields(m, self, resource, r_dict, fields, keys) ==
    IF ~Ok(m) \/ keys = <<>> THEN m
    ELSE _check_forbidden_fields(
             IF Head(keys) \in fields
             THEN call_log_error(m, self, Head(keys),
                      Msg("Key '{}' is not allowed in '{}'", <<Str(Head(keys)), Str(resource)>>))
             ELSE m,
             self, resource, r_dict, fields, Tail(keys))

_check_common_fields(m, self, val) ==
    LET c == Call(m, self, "_compare_dicts", <<_common_fields_mapping>>, val)
    IN  Ret(c.m, c.r)

\* type(value).__name__
type_name(v) == IF v.t = "null" THEN "NoneType" ELSE v.t

\* A variant that looks for the missing required fields first.
_check_all_key_constraints_required_first(m, self, resource, r_dict) ==
    IF ~Ok(m) THEN Ret(m, r_dict)
    ELSE IF ~isinstance(r_dict, "dict")
    THEN Ret(call_log_error(m, self, resource,
                 Msg("'{}' must be json-object, not {}", <<Str(resource), Str(type_name(r_dict))>>)), r_dict)
    ELSE LET keys == Ordered(DOMAIN r_dict.d)
             m1 == _check_required_fields(m, self, resource, r_dict,
                       Ordered(REQUIRED_FIELDS(self)), 1)
             m2 == _check_forbidden_fields(m1, self, resource, r_dict, FORBIDDEN_FIELDS(self), keys)
             m3 == _check_recommended_fields(m2, self, resource, r_dict,
                       Ordered(RECOMMENDED_FIELDS(self)), 1)
             m4 == _check_unknown_fields(m3, self, resource, r_dict, KNOWN_FIELDS(self), keys)
         IN  _check_common_fields(m4, self, r_dict)

_check_all_key_constraints(m, self, resource, r_dict) ==
    IF ~Ok(m) THEN Ret(m, r_dict)
    ELSE IF ~isinstance(r_dict, "dict")
    THEN Ret(call_log_error(m, self, resource,
                 Msg("'{}' must be json-object, not {}", <<Str(resource), Str(type_name(r_dict))>>)), r_dict)
    ELSE LET keys == Ordered(DOMAIN r_dict.d)
             m1 == _check_forbidden_fields(m, self, resource, r_dict, FORBIDDEN_FIELDS(self), keys)
             m2 == _check_required_fields(m1, self, resource, r_dict,
                       Ordered(REQUIRED_FIELDS(self)), 1)
             m3 == _check_recommended_fields(m2, self, resource, r_dict,
                       Ordered(RECOMMENDED_FIELDS(self)), 1)
             m4 == _check_unknown_fields(m3, self, resource, r_dict, KNOWN_FIELDS(self), keys)
         IN  _check_common_fields(m4, self, r_dict)

\* ImageContentValidator.service_field
image_service_field(m, self, value) ==
    IF ~Ok(m) THEN Ret(m, value)
    ELSE LET old_path == m.inst[self].path
             m1 == temp_path_enter(m, self, PathAdd(old_path, Field("service")))
             m2 == Call(m1, self, "_check_required_fields",
                        <<"image service", <<"@id", "@context">> >>, value).m
             m3 == Call(m2, self, "_check_recommended_fields",
                        <<"image service", <<"profile">> >>, value).m
             context == Get(value, "@context")
             m4 == IF ~Ok(m3) THEN m3
                   ELSE IF Truthy(context) /\ context # Str(IMAGE_API_2)
                   THEN IF context # Str(IMAGE_API_1)
                        THEN call_log_error(m3, self, "@context",
                                 Msg("Must reference IIIF image API.", <<>>))
                        ELSE call_log_warning(m3, self, "@context",
                                 Msg("SHOULD upgrade to 2.0 IIIF image service.", <<>>))
                   ELSE m3
         IN  Ret(temp_path_exit(m4, self, old_path), value)

\* BaseValidator._general_image_resource(field, value); the image service is
\* checked by the ImageContentValidator instance.
_general_image_resource(m, self, field, value) ==
    IF ~Ok(m) THEN Ret(m, value)
    ELSE IF isinstance(value, "str")
    THEN Call(call_log_warning(m, self, field,
                  Msg("{} SHOULD be IIIF image service.", <<Str(field)>>)),
              self, "_uri_type", <<field>>, value)
    ELSE IF isinstance(value, "dict")
    THEN LET service == Get(value, "service")
         IN  IF Truthy(service) /\ ~isinstance(service, "dict")
             THEN Ret(Raise(m, "AttributeError"), value)
             ELSE IF Truthy(service) /\ Get(service, "@context") = Str(IMAGE_API_2)
             THEN LET r == Call(m, "image_content", "service_field", <<>>, service)
                  IN  Ret(r.m, SetItem(value, "service", r.r))
             ELSE LET r == Call(m, self, "_uri_type", <<field>>, value)
                  IN  Ret(call_log_warning(r.m, self, field,
                              Msg("{} SHOULD be IIIF image service.", <<Str(field)>>)), r.r)
    ELSE Ret(call_log_error(m, self, field,
                 Msg("{} type should be string or dict.", <<Str(field)>>)), value)

\* BaseValidator.mute_errors(fn, *args): returns (val, caught_errors).
mute_errors(m, self, fn, value) ==
    IF ~Ok(m) THEN [m |-> m, r |-> value, errors |-> PySet]
    ELSE LET old_log_error == m.log_error
             m1 == mute_errors_enter(m)
             k == Len(m1.caught)
             r == Apply(m1, self, fn, value)
             m2 == mute_errors_exit(r.m, old_log_error)
         IN  [m |-> m2, r |-> r.r, errors |-> m2.caught[k]]

viewing_hint_field(m, self, value) ==
    IF ~Ok(m) THEN Ret(m, value)
    ELSE IF VIEW_HINTS_hashes(self) /\ ~Hashable(value) THEN Ret(Raise(m, "TypeError"), value)
    ELSE IF ~(isinstance(value, "str") /\ value.s \in VIEW_HINTS(self))
    THEN LET c == Call(m, self, "mute_errors", <<Partial("_uri_type", "viewingHint")>>, value)
         IN  IF Ok(c.m) /\ LogNonEmpty(c.errors)
             THEN Ret(call_log_error(c.m, self, "viewingHint",
                          Msg("viewingHint '{}' is not valid and not uri.", <<value>>)), value)
             ELSE Ret(c.m, value)
    ELSE Ret(m, value)

viewing_dir_field(m, self, value) ==
    IF ~Ok(m) THEN Ret(m, value)
    ELSE IF VIEW_DIRS_hashes(self) /\ ~Hashable(value) THEN Ret(Raise(m, "TypeError"), value)
    ELSE IF ~(isinstance(value, "str") /\ value.s \in VIEW_DIRS(self))
    THEN Ret(call_log_error(m, self, "viewingDirection",
                 Msg("viewingDirection '{}' is not valid and not uri.", <<value>>)), value)
    ELSE Ret(m, value)

\* type_field of each class; BaseValidator.type_field raises.
TypeName(self) ==
    CASE self = "manifest" -> "sc:Manifest"
      [] self = "sequence" -> "sc:Sequence"
      [] self = "canvas" -> "sc:Canvas"
      [] self = "annotation" -> "oa:Annotation"
      [] self = "image_content" -> "dctypes:Image"
      [] OTHER -> ""
type_field(m, self, value) ==
    IF ~Ok(m) THEN Ret(m, value)
    ELSE IF self = "base" THEN Ret(Raise(m, "TypeError"), value)
    ELSE IF value # Str(TypeName(self))
    THEN Ret(call_log_error(m, self, "@type",
                 Msg("@type must be '{}'", <<Str(TypeName(self))>>)), value)
    ELSE Ret(m, value)

\* ManifestValidator.context_field and SequenceValidator.context_field
context_field(m, self, value) ==
    IF ~Ok(m) THEN Ret(m, value)
    ELSE IF self = "sequence"
    THEN IF m.inst[self].emb = "True"
         THEN Ret(call_log_error(m, self, "@context",
                      Msg("@context field not allowed in embedded sequence.", <<>>)), value)
         ELSE IF value # Str(PRESENTATION_API_URI)
         THEN Ret(call_log_error(m, self, "@context", Msg("unknown context.", <<>>)), value)
         ELSE Ret(m, value)
    ELSE LET bad == \/ isinstance(value, "str") /\ value # Str(PRESENTATION_API_URI)
                    \/ /\ isinstance(value, "list")
                       /\ \A i \in 1..Len(value.items) : value.items[i] # Str(PRESENTATION_API_URI)
         IN  IF bad
             THEN Ret(call_log_error(m, self, "@context",
                          Msg("'@context' must be set to '{}'", <<Str(PRESENTATION_API_URI)>>)), value)
             ELSE Ret(m, value)

motivation_field(m, self, value) ==
    IF ~Ok(m) THEN Ret(m, value)
    ELSE IF value # Str("sc:painting")
    THEN Ret(call_log_error(m, self, "motivation",
                 Msg("motivation must be 'sc:painting'.", <<>>)), value)
    ELSE Ret(m, value)

on_field(m, self, value) ==
    IF ~Ok(m) THEN Ret(m, value)
    ELSE IF Truthy(m.inst[self].canvas_uri) /\ value # m.inst[self].canvas_uri
    THEN Ret(call_log_error(m, self, "on", Msg("'on' must reference the canvas URI.", <<>>)), value)
    ELSE Ret(m, value)

\* CanvasValidator.other_content_field: item['@id'] of every item.
RECURSIVE other_content_loop(_, _, _, _, _)
other_content_loop(m, self, items, i, acc) ==
    IF ~Ok(m) \/ i > Len(items) THEN Ret(m, List(acc))
    ELSE IF ~isinstance(items[i], "dict") THEN Ret(Raise(m, "TypeError"), List(acc))
    ELSE IF "@id" \notin DOMAIN items[i].d THEN Ret(Raise(m, "KeyError"), List(acc))
    ELSE LET r == Call(m, self, "_uri_type", <<"otherContent">>, items[i].d["@id"])
         IN  other_content_loop(r.m, self, items, i + 1, Append(acc, r.r))
other_content_field(m, self, value) ==
    IF ~Ok(m) THEN Ret(m, value)
    ELSE IF ~isinstance(value, "list")
    THEN Ret(call_log_error(m, self, "otherContent", Msg("otherContent must be a list.", <<>>)), value)
    ELSE other_content_loop(m, self, value.items, 1, <<>>)

----------------------------------------------------------------------------
(* The parts of _validate. *)

\* **kwargs: the keyword arguments the validators pass, each possibly absent.
Absent == [t |-> "absent"]
NoKw == [emb |-> "absent", canvas_uri |-> Absent]

\* BaseValidator._reset(path)
_reset(m, self, path) ==
    [m EXCEPT !.inst[self].json = None,
              !.inst[self].is_valid = "None",
              !.inst[self].errors = ValidatorLog(m.cfg.unique_logging),
              !.inst[self].warnings = ValidatorLog(m.cfg.unique_logging),
              !.inst[self].path = path]

\* A variant that sets the flag after the body instead of in a 'finally'.
validate_no_finally(m, self) ==
    IF Ok(m)
    THEN [m EXCEPT !.inst[self].is_valid =
              IF LogNonEmpty(m.inst[self].errors) THEN "False" ELSE "True"]
    ELSE m

\* The 'finally' of _validate: validity from the error log.
validate_finally(m, self) ==
    [m EXCEPT !.inst[self].is_valid =
         IF LogNonEmpty(m.inst[self].errors) THEN "False" ELSE "True"]

\* CanvasValidator._raise_additional_warnings; the other classes pass.
_raise_additional_warnings(m, self, validation_results) ==
    IF ~Ok(m) \/ self # "canvas" THEN m
    ELSE IF ~isinstance(validation_results, "dict") THEN Raise(m, "AttributeError")
    ELSE LET images == IF "images" \in DOMAIN validation_results.d
                       THEN validation_results.d["images"] ELSE List(<<>>)
         IN  IF LenRaises(images) THEN Raise(m, "TypeError")
             ELSE IF PyLen(images) > 1 /\ ~Truthy(Get(validation_results, "thumbnail"))
             THEN call_log_warning(m, self, "thumbnail",
                      Msg("Canvas SHOULD have a thumbnail when there is more than one image", <<>>))
             ELSE m

\* BaseValidator.modify_final_return
modify_final_return(m, self, validation_results) == Ret(m, validation_results)

----------------------------------------------------------------------------
(* The list fields handed to other validators.  Each reaches a loop of
   _sub_validate calls, one per item; the loop itself is taken step by
   step (SubValidate, SubReturn, Complete below). *)

Suspend(m, key, child, items, path, single) ==
    [m EXCEPT !.exc = "suspend",
              !.susp = [NoSusp EXCEPT !.key = key, !.child = child, !.items = items,
                                      !.path = path, !.single = single]]

\* ManifestValidator.sequences_field
sequences_field(m, self, value) ==
    IF ~Ok(m) THEN Ret(m, value)
    ELSE IF ~isinstance(value, "list")
    THEN Ret(call_log_error(m, self, "sequences", Msg("'sequences' MUST be a list", <<>>)), value)
    ELSE IF Len(value.items) = 0 THEN Ret(m, List(<<>>))
    ELSE Ret(Suspend(m, "sequences", "sequence", value.items,
                 PathAdd(m.inst[self].path, Field("sequences")), FALSE), value)

\* A variant of canvases_field without the test for an empty list.
canvases_field_any_length(m, self, value) ==
    IF ~Ok(m) THEN Ret(m, value)
    ELSE IF ~isinstance(value, "list")
    THEN Ret(call_log_error(m, self, "canvases", Msg("'canvases' MUST be a list.", <<>>)), value)
    ELSE IF Len(value.items) < 1 THEN Ret(m, value)
    ELSE Ret(Suspend(m, "canvases", "canvas", value.items,
                 PathAdd(m.inst[self].path, Field("canvases")), FALSE), value)

\* SequenceValidator.canvases_field
canvases_field(m, self, value) ==
    IF ~Ok(m) THEN Ret(m, value)
    ELSE IF ~isinstance(value, "list")
    THEN Ret(call_log_error(m, self, "canvases", Msg("'canvases' MUST be a list.", <<>>)), value)
    ELSE IF Len(value.items) < 1
    THEN Ret(call_log_error(m, self, "canvases",
                 Msg("'canvases' MUST have at least one entry", <<>>)), value)
    ELSE Ret(Suspend(m, "canvases", "canvas", value.items,
                 PathAdd(m.inst[self].path, Field("canvases")), FALSE), value)

\* CanvasValidator.images_field
images_field(m, self, value) ==
    IF ~Ok(m) THEN Ret(m, value)
    ELSE IF isinstance(value, "list")
    THEN IF Len(value.items) = 0 THEN Ret(m, List(<<>>))
         ELSE Ret(Suspend(m, "images", "annotation", value.items,
                      PathAdd(m.inst[self].path, Field("images")), FALSE), value)
    ELSE IF ~Truthy(value)
    THEN Ret(call_log_warning(m, self, "images", Msg("'images' SHOULD have values.", <<>>)), value)
    ELSE Ret(call_log_error(m, self, "images", Msg("'images' must be a list.", <<>>)), value)

\* A variant that hands the resource to the annotation validator itself.
resource_field_to_self(m, self, value) ==
    IF ~Ok(m) THEN Ret(m, value)
    ELSE Ret(Suspend(m, "resource", self, <<value>>,
                 PathAdd(m.inst[self].path, Field("resource")), TRUE), value)
\* AnnotationValidator.resource_field: one _sub_validate call, whose value
\* is the field's value.
resource_field(m, self, value) ==
    IF ~Ok(m) THEN Ret(m, value)
    ELSE Ret(Suspend(m, "resource", "image_content", <<value>>,
                 PathAdd(m.inst[self].path, Field("resource")), TRUE), value)

\* The path and the keyword arguments of the i-th _sub_validate call of a
\* list field.
child_path(susp, i) ==
    IF susp.key = "sequences" THEN PathAdd(susp.path, Index(i - 1)) ELSE susp.path
child_kw(m, self, susp, i) ==
    CASE susp.key = "sequences" -> [NoKw EXCEPT !.emb = IF i = 1 THEN "True" ELSE "False"]
      [] susp.key = "images" -> [NoKw EXCEPT !.canvas_uri = m.inst[self].canvas_uri]
      [] OTHER -> NoKw

\* What the list field returns once its loop is over.
field_return(susp, acc) == IF susp.single THEN acc[1] ELSE List(acc)

----------------
(* _run_validation of each class. *)


\* self._json['@id'] raises unless the fragment is an object holding '@id'.
SubscriptRaises(v, k) ==
    IF ~isinstance(v, "dict") THEN "TypeError"
    ELSE IF k \notin DOMAIN v.d THEN "KeyError" ELSE "none"

ClassSchema(m, self) ==
    CASE self = "manifest" -> ManifestSchema
      [] self = "sequence" ->
           IF m.inst[self].emb = "True" THEN EmbSequenceSchema ELSE LinkedSequenceSchema
      [] self = "canvas" -> CanvasSchema
      [] self = "annotation" -> ImageSchema
      [] self = "image_content" -> ImageContentSchema

ResourceName(self) ==
    CASE self = "manifest" -> "manifest"
      [] self = "sequence" -> "sequence"
      [] self = "canvas" -> "canvas"
      [] self = "annotation" -> "annotation"
      [] self = "image_content" -> "resource"

_run_validation(m, self, kw) ==
    IF ~Ok(m) THEN Ret(m, None)
    ELSE IF self = "base" THEN Ret(Raise(m, "TypeError"), None)
    ELSE LET json == m.inst[self].json
             \* the statements before _check_all_key_constraints
             m1 == CASE self = "canvas" ->
                         IF SubscriptRaises(json, "@id") # "none"
                         THEN Raise(m, SubscriptRaises(json, "@id"))
                         ELSE [m EXCEPT !.inst[self].canvas_uri = json.d["@id"]]
                     [] self = "annotation" ->
                         [m EXCEPT !.inst[self].canvas_uri =
                             IF kw.canvas_uri = Absent THEN None ELSE kw.canvas_uri]
                     [] OTHER -> m
             r2 == Call(m1, self, "_check_all_key_constraints", <<ResourceName(self)>>, json)
             \* SequenceValidator._validate_sequence(emb=True)
             m3 == IF Ok(r2.m) /\ self = "sequence"
                   THEN [r2.m EXCEPT !.inst[self].emb =
                             IF kw.emb = "absent" THEN "True" ELSE kw.emb]
                   ELSE r2.m
             c == Call(m3, self, "_compare_dicts", <<ClassSchema(m3, self)>>, json)
         IN  Ret(c.m, c.r)

------------------------------------------------------------

----------------------------------------------------------------------------
(* _validate. *)

\* _validate after _run_validation has returned val: the rest of the 'try'
\* and the 'finally'.
validate_tail(m, self, val) ==
    LET r2 == Call(m, self, "_check_common_fields", <<>>, val)
        m3 == _raise_additional_warnings(r2.m, self, r2.r)
        r4 == modify_final_return(m3, self, r2.r)
        m5 == IF Ok(r4.m) THEN [r4.m EXCEPT !.inst[self].corrected_doc = r4.r] ELSE r4.m
    IN  validate_finally(m5, self)

\* BaseValidator._validate(json_dict, path, **kwargs), up to its end or up
\* to the loop of a list field.
_validate(m, self, json_dict, path, kw) ==
    LET \* if not path: path = Path(tuple())
        p == IF Len(path) = 0 THEN EmptyPath ELSE path
        m1 == _reset(m, self, p)
        m2 == [m1 EXCEPT !.inst[self].json = json_dict,
                         !.start = [errors |-> m1.inst[self].errors,
                                    warnings |-> m1.inst[self].warnings,
                                    corrected_doc |-> m1.inst[self].corrected_doc,
                                    path |-> m1.inst[self].path]]
        r1 == Call(m2, self, "_run_validation", <<kw>>, None)
    IN  IF r1.m.exc = "suspend" THEN r1.m ELSE Call(r1.m, self, "validate_tail", <<>>, r1.r).m

\* _validate taken up again after the loop of a list field.
validate_resume(m, self, susp, ret) ==
    LET c == Call(m, self, "compare_dicts_resume", <<ClassSchema(m, self), susp>>, ret)
    IN  IF c.m.exc = "suspend" THEN c.m ELSE Call(c.m, self, "validate_tail", <<>>, c.r).m

----------------------------------------------------------------------------
(* _sub_validate: the 'finally' that follows the child's _validate. *)
\* A variant that assigns the child's logs instead of uniting them.
merge_child_assign(m, self, subschema) ==
    LET child == m.inst[subschema]
        m1 == IF LogNonEmpty(child.errors)
              THEN [m EXCEPT !.inst[self].errors = child.errors] ELSE m
    IN  IF LogNonEmpty(child.warnings)
        THEN [m1 EXCEPT !.inst[self].warnings = child.warnings] ELSE m1


\* The merge of the child's diagnostics.
merge_child(m, self, subschema) ==
    LET child == m.inst[subschema]
        m1 == IF LogNonEmpty(child.errors)
              THEN [m EXCEPT !.inst[self].errors = LogUnion(@, child.errors)] ELSE m
    IN  IF LogNonEmpty(child.warnings)
        THEN [m1 EXCEPT !.inst[self].warnings = LogUnion(@, child.warnings)] ELSE m1

\* The value returned from inside the 'finally', which discards whatever
\* exception the child's _validate raised.
sub_validate_return(m, subschema) ==
    IF Truthy(m.inst[subschema].corrected_doc)
    THEN m.inst[subschema].corrected_doc
    ELSE m.inst[subschema].json

----------------
(* Calling a check function. *)

Apply(m, self, f, value) ==
    CASE f.fn = "log_error" -> Ret(Invoke(m, m.log_error, self, f.args[1], f.args[2]), value)
      [] f.fn = "log_warning" ->
           Ret(Invoke(m, m.log_warning, self, f.args[1], f.args[2]), value)
      \* the methods of BaseValidator and of its subclasses
      [] f.fn = "_validate" -> Ret(_validate(m, self, value, f.args[1], f.args[2]), value)
      [] f.fn = "validate_resume" -> Ret(validate_resume(m, self, f.args[1], value), value)
      [] f.fn = "validate_tail" -> Ret(validate_tail(m, self, value), value)
      [] f.fn = "_run_validation" -> _run_validation(m, self, f.args[1])
      [] f.fn = "_compare_dicts" -> _compare_dicts(m, self, f.args[1], value)
      [] f.fn = "compare_dicts_resume" ->
           compare_dicts_resume(m, self, f.args[1], f.args[2], value)
      [] f.fn = "_check_all_key_constraints" ->
           _check_all_key_constraints(m, self, f.args[1], value)
      [] f.fn = "_check_common_fields" -> _check_common_fields(m, self, value)
      [] f.fn = "_check_required_fields" ->
           Ret(_check_required_fields(m, self, f.args[1], value, f.args[2], 1), value)
      [] f.fn = "_check_recommended_fields" ->
           Ret(_check_recommended_fields(m, self, f.args[1], value, f.args[2], 1), value)
      [] f.fn = "_check_html" -> Ret(_check_html(m, self, f.args[1], value), value)
      [] f.fn = "_string_uri" -> _string_uri(m, self, f.args[1], value, f.args[2])
      \* http defaults to False
      [] f.fn = "_uri_type" ->
           _uri_type(m, self, f.args[1], value, IF Len(f.args) > 1 THEN f.args[2] ELSE FALSE)
      [] f.fn = "_repeatable_string_type" ->
           _repeatable_string_type(m, self, f.args[1], value)
      [] f.fn = "_str_or_val_lang_type" -> _str_or_val_lang_type(m, self, f.args[1], value)
      [] f.fn = "_metadata_entry" -> _metadata_entry(m, self, value)
      [] f.fn = "metadata_loop" -> metadata_loop(m, self, value.items, 1, <<>>)
      [] f.fn = "mute_errors" -> mute_errors(m, self, f.args[1], value)
      \* the check functions of the schemas
      [] f.fn = "id_field" -> id_field(m, self, value)
      [] f.fn = "label_field" -> _str_or_val_lang_type(m, self, "label", value)
      [] f.fn = "description_field" -> _str_or_val_lang_type(m, self, "description", value)
      [] f.fn = "attribution_field" -> _str_or_val_lang_type(m, self, "attribution", value)
      [] f.fn = "metadata_field" -> metadata_field(m, self, value)
      [] f.fn = "thumbnail_field" -> _general_image_resource(m, self, "thumbnail", value)
      [] f.fn = "logo_field" -> _general_image_resource(m, self, "logo", value)
      [] f.fn = "type_field" -> type_field(m, self, value)
      [] f.fn = "license_field" -> _repeatable_uri_type(m, self, "license", value)
      [] f.fn = "related_field" -> _repeatable_uri_type(m, self, "related", value)
      [] f.fn = "rendering_field" -> _repeatable_uri_type(m, self, "rendering", value)
      [] f.fn = "seeAlso_field" -> _repeatable_uri_type(m, self, "seeAlso", value)
      [] f.fn = "within_field" -> _repeatable_uri_type(m, self, "within", value)
      [] f.fn = "service_field" ->
           IF self = "image_content" THEN image_service_field(m, self, value)
           ELSE _repeatable_uri_type(m, self, "service", value)
      [] f.fn = "viewing_hint_field" -> viewing_hint_field(m, self, value)
      [] f.fn = "viewing_dir_field" -> viewing_dir_field(m, self, value)
      [] f.fn = "context_field" -> context_field(m, self, value)
      [] f.fn = "structures_field" -> Ret(m, value)
      [] f.fn = "sequences_field" -> sequences_field(m, self, value)
      [] f.fn = "startCanvas_field" -> Call(m, self, "_uri_type", <<"startCanvas">>, value)
      [] f.fn = "canvases_field" -> canvases_field(m, self, value)
      [] f.fn = "height_field" -> height_field(m, self, value)
      [] f.fn = "width_field" -> width_field(m, self, value)
      [] f.fn = "other_content_field" -> other_content_field(m, self, value)
      [] f.fn = "images_field" -> images_field(m, self, value)
      [] f.fn = "motivation_field" -> motivation_field(m, self, value)
      [] f.fn = "on_field" -> on_field(m, self, value)
      [] f.fn = "resource_field" -> resource_field(m, self, value)
      \* _not_allowed(field, value) called with one argument
      [] f.fn = "_not_allowed" -> Ret(Raise(m, "TypeError"), value)
      \* the check functions of the tests
      [] f.fn = "fake_valid" -> Ret(m, value)
      [] f.fn = "fake_invalid" ->
           Ret(call_log_error(m, self, "fake field", Msg("test error", <<>>)), value)
      [] f.fn = "fake_change" -> Ret(m, fake_change_str(value))

\* fn(corrected[key]) in _compare_dicts, with the call noted in the history.
CallField(m, self, key, f, value) ==
    IF ~Ok(m) THEN Ret(m, value)
    ELSE Apply([m EXCEPT !.h.calls = Append(@, <<self, key>>),
                         !.h.late = IF m.h.nerr > 0 THEN @ + 1 ELSE @],
               self, f, value)

----------------------------------------------------------------------------
(* The router of src/tripoli/tripoli.py: IIIFValidator.validate picks the
   validator of the document's '@type' and hands the document to it.  The
   names of that file carry the prefix T_.  Its diagnostics are kept in
   Python sets; its documents here are manifests and sequences with keys
   among '@type', 'label' and 'height', so of the check functions only
   type_field and label_field are called. *)

\* F applied to x, with x computed once.
With(x, F(_)) == CHOOSE y \in {F(b) : b \in {x}} : TRUE

T_Validators == {"manifest", "sequence", "canvas", "image_resource"}

\* ValidatorError(msg, path) / ValidatorWarning(msg, path): equal when they
\* print the same.
T_ValidatorException(msg, path) == [msg |-> msg, path |-> path]

\* LinkedValidatorMixin.__init__ and BaseValidatorMixin.__init__
T_NewValidator ==
    [errors |-> {}, warnings |-> {}, is_valid |-> "None", raise_warnings |-> TRUE,
     raise_errors |-> TRUE, path |-> EmptyPath, json |-> None, corrected_doc |-> None]

\* IIIFValidator.__init__: corrected_doc is no attribute of the router until
\* _set_from_sub has run.  (calls, doc, exc: history of the validate calls.)
NewRouter ==
    [errors |-> {}, warnings |-> {}, is_valid |-> "None", corrected_doc |-> Absent,
     sub |-> [v \in T_Validators |-> T_NewValidator],
     exc |-> "none", calls |-> 0, doc |-> None, before |-> None, invoked |-> {}]

T_TYPE_MAP(doc_type) ==
    CASE doc_type = Str("sc:Manifest") -> "manifest"
      [] doc_type = Str("sc:Sequence") -> "sequence"
      [] doc_type = Str("sc:Canvas") -> "canvas"
      [] doc_type = Str("oa:Annotation") -> "image_resource"
      [] OTHER -> ""

T_KNOWN_FIELDS(v) ==
    CASE v = "manifest" ->
           COMMON_FIELDS \cup {"viewingDirection", "navDate", "sequences", "structures", "@context"}
      [] v = "sequence" -> COMMON_FIELDS \cup {"viewingDirection", "startCanvas", "canvases"}
T_FORBIDDEN_FIELDS(v) ==
    CASE v = "manifest" ->
           {"format", "height", "width", "startCanvas", "first", "last", "total", "next",
            "prev", "startIndex", "collections", "manifests", "members", "canvases",
            "resources", "otherContent", "images", "ranges"}
      [] v = "sequence" ->
           {"format", "height", "width", "navDate", "first", "last", "total", "next", "prev",
            "startIndex", "collections", "manifests", "sequences", "structures", "resources",
            "otherContent", "images", "ranges"}
T_REQUIRED_FIELDS(v) ==
    CASE v = "manifest" -> {"label", "@context", "@id", "@type", "sequences"}
      [] v = "sequence" -> {"@type", "canvases"}
T_RECOMMENDED_FIELDS(v) ==
    CASE v = "manifest" -> {"metadata", "description", "thumbnail"}
      [] v = "sequence" -> {}

\* BaseValidatorMixin.log_error / log_warning
T_log_error(s, field, msg) ==
    IF s.raise_errors
    THEN [s EXCEPT !.errors = @ \cup {T_ValidatorException(msg, PathAdd(s.path, Field(field)))}]
    ELSE s
T_log_warning(s, field, msg) ==
    IF s.raise_warnings
    THEN [s EXCEPT !.warnings = @ \cup {T_ValidatorException(msg, PathAdd(s.path, Field(field)))}]
    ELSE s

\* ManifestValidator.type_field, SequenceValidator.type_field
T_type_field(s, v, value) ==
    CASE v = "manifest" ->
           IF value # Str("sc:Manifest")
           THEN T_log_error(s, "@type", Msg("@type must be 'sc:Manifest'.", <<>>)) ELSE s
      [] v = "sequence" ->
           IF value # Str("sc:Sequence")
           THEN T_log_error(s, "@type", Msg("@type must be 'sc:Sequence'", <<>>)) ELSE s

\* label_field -> _str_or_val_lang_type("label", value), for a label that is
\* a text or no text, list or object.
T_label_field(s, value) ==
    IF isinstance(value, "str") THEN s
    ELSE T_log_error(s, "label", Msg("Illegal type (should be str, list, or dict)", <<>>))

\* _compare_dicts(schema, value): the check function of each key of value
\* that the schema has.  fields: the keys of the schema among '@type' and
\* 'label'.  Every check function here returns its argument, so the
\* corrected dict equals value.
RECURSIVE T_compare_dicts(_, _, _, _)
T_compare_dicts(s, v, fields, value) ==
    IF fields \cap DOMAIN value.d = {} THEN s
    ELSE LET k == CHOOSE x \in fields \cap DOMAIN value.d : TRUE
             s1 == IF k = "@type" THEN T_type_field(s, v, value.d[k])
                   ELSE T_label_field(s, value.d[k])
         IN  T_compare_dicts(s1, v, fields \ {k}, value)

\* _check_common_fields: of its thirteen keys the documents have 'label'
\* and '@type'.
T_check_common_fields(s, v, val) == T_compare_dicts(s, v, {"label", "@type"}, val)

RECURSIVE T_each(_, _, _, _, _)
\* "for f in fields: ..." with one log call per field.
T_each(s, v, fields, sev, fmt) ==
    IF fields = {} THEN s
    ELSE LET f == CHOOSE x \in fields : TRUE
             msg == IF sev = "recommended"
                    THEN Msg(fmt, <<Str(v), Str(f)>>) ELSE Msg(fmt, <<Str(f), Str(v)>>)
             s1 == IF sev \in {"recommended", "unknown"}
                   THEN T_log_warning(s, f, msg) ELSE T_log_error(s, f, msg)
         IN  T_each(s1, v, fields \ {f}, sev, fmt)

\* _check_all_key_constraints(resource, r_dict): common fields, then the
\* recommended, unknown, forbidden and required fields.
T_check_all_key_constraints(s, v, r_dict) ==
    LET keys == DOMAIN r_dict.d
        s1 == T_check_common_fields(s, v, r_dict)
        s2 == T_each(s1, v, {f \in T_RECOMMENDED_FIELDS(v) : ~Truthy(Get(r_dict, f))},
                     "recommended", "{} SHOULD have {} field.")
        s3 == T_each(s2, v, keys \ T_KNOWN_FIELDS(v), "unknown", "Unknown key '{}' in '{}'")
        s4 == T_each(s3, v, keys \cap T_FORBIDDEN_FIELDS(v), "forbidden",
                     "Key '{}' is not allowed in '{}'")
    IN  T_each(s4, v, T_REQUIRED_FIELDS(v) \ keys, "required", "Key '{}' is required in '{}'")

\* ManifestValidator._run_validation (ManifestSchema: '@context',
\* 'sequences', 'structures') and SequenceValidator._run_validation
\* (EmbSequenceSchema: of its keys the documents have '@type').
T_run_validation(s, v) ==
    LET s1 == T_check_all_key_constraints(s, v, s.json)
    IN  IF v = "manifest" THEN T_compare_dicts(s1, v, {}, s.json)
        ELSE T_compare_dicts(s1, v, {"@type"}, s.json)

\* BaseValidatorMixin._reset: the warnings and the corrected document stay.
T_reset(s, path) ==
    [s EXCEPT !.json = None, !.is_valid = "None", !.errors = {}, !.path = path]

\* BaseValidatorMixin._validate(json_dict, path=None)
T_validate(s, v, json_dict) ==
    LET s0 == [T_reset(s, EmptyPath) EXCEPT !.json = json_dict]
        s1 == T_run_validation(s0, v)
    IN  With(T_check_common_fields(s1, v, json_dict),
             LAMBDA s2 : [s2 EXCEPT !.corrected_doc = json_dict,
                                    !.is_valid = IF s2.errors # {} THEN "False" ELSE "True"])

\* json.loads(text): the value, or ValueError
json_loads(text) ==
    CASE text = "{\"@type\": \"sc:Sequence\"}" ->
           [ok |-> TRUE, value |-> SetItem(EmptyDict, "@type", Str("sc:Sequence"))]
      [] text = "{\"@type\": \"sc:Unknown\"}" ->
           [ok |-> TRUE, value |-> SetItem(EmptyDict, "@type", Str("sc:Unknown"))]
      [] text = "{\"label\": \"l\"}" ->
           [ok |-> TRUE, value |-> SetItem(EmptyDict, "label", Str("l"))]
      [] OTHER -> [ok |-> FALSE, value |-> None]

\* LinkedValidatorMixin._sub_validate(subschema, value, path=None), called by
\* the router: without a validator, subschema._validate is an attribute
\* of None.
T_sub_validate(r, v, value) ==
    IF v = "" THEN [r EXCEPT !.exc = "AttributeError"]
    ELSE With(T_validate(r.sub[v], v, value),
              LAMBDA s : [r EXCEPT !.sub[v] = s, !.invoked = @ \cup {v},
                                   !.errors = IF s.errors # {} THEN @ \cup s.errors ELSE @,
                                   !.warnings = IF s.warnings # {} THEN @ \cup s.warnings
                                                ELSE @])

\* IIIFValidator._set_from_sub
T_set_from_sub(r, v) ==
    [r EXCEPT !.is_valid = r.sub[v].is_valid, !.corrected_doc = r.sub[v].corrected_doc]

\* IIIFValidator.validate(json_dict)
T_IIIFValidator_validate(r, json_dict) ==
    LET loaded == IF isinstance(json_dict, "str") THEN json_loads(json_dict.s)
                  ELSE [ok |-> TRUE, value |-> json_dict]
        r1 == IF loaded.ok THEN r
              ELSE [r EXCEPT !.errors = @ \cup {T_ValidatorException(
                                                    Msg("Could not parse json.", <<>>), EmptyPath)},
                             !.is_valid = "False"]
        doc == IF loaded.ok THEN loaded.value ELSE json_dict
    IN  IF ~isinstance(doc, "dict") THEN [r1 EXCEPT !.exc = "AttributeError"]
        ELSE LET doc_type == Get(doc, "@type")
                 v == T_TYPE_MAP(doc_type)
                 r2 == IF v = ""
                       THEN [r1 EXCEPT !.errors = @ \cup {T_ValidatorException(
                                           Msg("Unknown @type: '{}'", <<doc_type>>), EmptyPath)},
                                       !.is_valid = "False"]
                       ELSE r1
             IN  With(T_sub_validate(r2, v, doc),
                      LAMBDA r3 : IF r3.exc # "none" THEN r3 ELSE T_set_from_sub(r3, v))

----------------------------------------------------------------------------
(* The documents validated: a well-formed manifest and its defects. *)

Rec2(k1, v1, k2, v2) == (k1 :> v1) @@ (k2 :> v2)
DelItem(v, k) == Dict(Restrict(v.d, DOMAIN v.d \ {k}))

GoodResource ==
    Dict(("@id" :> Str("http://r")) @@ ("@type" :> Str("dctypes:Image"))
             @@ ("height" :> Num(1)) @@ ("width" :> Num(1)))

GoodAnnotation(uri) ==
    Dict(("@id" :> Str("http://x")) @@ ("@type" :> Str("oa:Annotation"))
             @@ ("motivation" :> Str("sc:painting")) @@ ("on" :> Str(uri))
             @@ ("resource" :> GoodResource))

GoodCanvas(uri) ==
    Dict(("@id" :> Str(uri)) @@ ("@type" :> Str("sc:Canvas")) @@ ("label" :> Str("canvas"))
             @@ ("height" :> Num(1)) @@ ("width" :> Num(1))
             @@ ("images" :> List(<<GoodAnnotation(uri)>>)))

CanvasKinds == {"ok", "badtype", "noid"}

\* The i-th canvas of a sequence, well-formed or with one defect.
Canvas(i, kind) ==
    LET c == GoodCanvas(CanvasUris[i])
    IN  CASE kind = "ok" -> c
          [] kind = "badtype" -> SetItem(c, "@type", Str("sc:Wrong"))
          [] kind = "noid" -> DelItem(c, "@id")

GoodSequence(canvases) ==
    Dict(Rec2("@type", Str("sc:Sequence"), "canvases", List(canvases)))

GoodManifest(sequences) ==
    Dict(("@context" :> Str(PRESENTATION_API_URI)) @@ ("@id" :> Str("http://m"))
             @@ ("@type" :> Str("sc:Manifest")) @@ ("label" :> Str("manifest"))
             @@ ("sequences" :> sequences))

CanvasLists ==
    UNION {[1..n -> CanvasKinds] : n \in 1..MaxCanvases}

ManifestDefects ==
    {"two_errors", "unknown", "script", "thumbnail", "hint", "seq_notlist", "two_seqs",
     "badon", "badres", "two_images", "two_bad", "seq_object", "no_canvases"}

RECURSIVE Canvases(_, _)
\* The first n canvases of the kinds ks.
Canvases(ks, n) ==
    IF n = 0 THEN <<>> ELSE Append(Canvases(ks, n - 1), Canvas(n, ks[n]))

OneCanvas == <<Canvas(1, "ok")>>
WithImages(images) ==
    GoodManifest(List(<<GoodSequence(<<SetItem(Canvas(1, "ok"), "images", List(images))>>)>>))

Defective(kind) ==
    LET g == GoodManifest(List(<<GoodSequence(OneCanvas)>>))
        a == GoodAnnotation(CanvasUris[1])
    IN  CASE kind = "two_errors" -> DelItem(SetItem(g, "@type", Str("sc:Wrong")), "label")
          [] kind = "unknown" -> SetItem(g, "unknown_key", Str("value"))
          [] kind = "script" -> SetItem(g, "description", Str("<script>x</script>"))
          [] kind = "thumbnail" ->
               SetItem(g, "thumbnail",
                   Dict(Rec2("@id", Str("http://x"),
                             "service", Dict(Rec2("@context", Str(IMAGE_API_2),
                                                  "profile", Str("http://x"))))))
          [] kind = "hint" -> SetItem(g, "viewingHint", Str("bad"))
          [] kind = "seq_notlist" -> SetItem(g, "sequences", Str("value"))
          [] kind = "seq_object" -> SetItem(g, "sequences", GoodSequence(OneCanvas))
          [] kind = "no_canvases" -> GoodManifest(List(<<GoodSequence(<<>>)>>))
          [] kind = "two_seqs" ->
               SetItem(g, "sequences",
                   List(<<GoodSequence(OneCanvas), GoodSequence(OneCanvas)>>))
          [] kind = "badon" -> WithImages(<<SetItem(a, "on", Str("http://x"))>>)
          [] kind = "badres" ->
               WithImages(<<SetItem(a, "resource",
                                SetItem(GoodResource, "@type", Str("wrong")))>>)
          [] kind = "two_images" -> WithImages(<<a, a>>)
          [] kind = "two_bad" ->
               GoodManifest(List(<<GoodSequence(
                   <<Canvas(1, "badtype"), DelItem(Canvas(2, "ok"), "label")>>)>>))

Docs ==
    {GoodManifest(List(<<GoodSequence(Canvases(ks, Len(ks)))>>)) :
        ks \in CanvasLists}
    \cup {Defective(k) : k \in ManifestDefects}

----------------------------------------------------------------------------
(* The validator at work: documents validated one after another by the
   same validator objects.  A _validate call in progress is a frame of the
   stack; its list field hands the items to the child validator one at a
   time. *)

\* The _validate call on validator self, as the machine m left it: at the
\* loop of a list field ("loop"), or ended ("done") with the exception exc.
Frame(m, self, value, path, kw) ==
    [self |-> self, value |-> value, given |-> path, kw |-> kw, start |-> m.start,
     status |-> IF m.exc = "suspend" THEN "loop" ELSE "done",
     exc |-> IF m.exc = "suspend" THEN "none" ELSE m.exc,
     susp |-> IF m.exc = "suspend" THEN m.susp ELSE NoSusp,
     i |-> 1, acc |-> <<>>, raised |-> <<>>]

Top == stack[Len(stack)]
Store(m) ==
    /\ inst' = m.inst
    /\ hist' = m.h
    /\ cls_log_error' = m.log_error
    /\ cls_log_warning' = m.log_warning
    /\ caught' = <<>>

Init ==
    /\ inst = [v \in Validators |-> NewInstance]
    /\ cls_log_error = F_log_error
    /\ cls_log_warning = F_log_warning
    /\ caught = <<>>
    /\ exc = "none"
    /\ cfg \in [fail_fast : BOOLEAN, collect_errors : BOOLEAN,
                collect_warnings : BOOLEAN, unique_logging : BOOLEAN]
    /\ hist = NoHist
    /\ stack = <<>>
    /\ done = <<>>
    /\ frames = <<>>
    /\ last = NoLast
    /\ cmp = None
    /\ runs = 0
    /\ probe = NoProbe
    /\ router = NewRouter

\* ManifestValidator._validate(doc) is called from outside.
Validate(doc) ==
    /\ stack = <<>>
    /\ runs < MaxRuns
    /\ LET m == Apply([Machine EXCEPT !.h = [NoHist EXCEPT !.doc = doc]], "manifest",
                      Method("_validate", <<EmptyPath, NoKw>>), doc).m
       IN  /\ Store(m)
           /\ stack' = <<Frame(m, "manifest", doc, EmptyPath, NoKw)>>
    /\ exc' = "none"
    /\ UNCHANGED <<cfg, done, frames, last, cmp, runs, probe, router>>

\* _sub_validate: the next item of the list field goes to the child's
\* _validate.
SubValidate ==
    /\ stack # <<>>
    /\ Top.status = "loop"
    /\ Top.i <= Len(Top.susp.items)
    /\ LET f == Top
           path == child_path(f.susp, f.i)
           kw == child_kw(Machine, f.self, f.susp, f.i)
           m == Apply(Machine, f.susp.child, Method("_validate", <<path, kw>>),
                      f.susp.items[f.i]).m
       IN  /\ Store(m)
           /\ stack' = Append(stack, Frame(m, f.susp.child, f.susp.items[f.i], path, kw))
    /\ UNCHANGED <<exc, cfg, done, frames, last, cmp, runs, probe, router>>

\* _sub_validate: the child's _validate has ended; the 'finally' merges its
\* diagnostics and returns its output to the loop of the list field.
SubReturn ==
    /\ Len(stack) >= 2
    /\ Top.status = "done"
    /\ LET child == Top
           parent == stack[Len(stack) - 1]
           m == merge_child(Machine, parent.self, child.self)
           ret == sub_validate_return(m, child.self)
       IN  /\ Store(m)
           /\ stack' = [SubSeq(stack, 1, Len(stack) - 1) EXCEPT
                           ![Len(stack) - 1] = [parent EXCEPT !.i = @ + 1,
                                                              !.acc = Append(@, ret),
                                                              !.raised = Append(@, child.exc)]]
    /\ UNCHANGED <<exc, cfg, done, frames, last, cmp, runs, probe, router>>

\* The loop of the list field is over: the field returns and _validate
\* goes on to its end.
Complete ==
    /\ stack # <<>>
    /\ Top.status = "loop"
    /\ Top.i > Len(Top.susp.items)
    /\ LET f == Top
           m == Apply(Machine, f.self, Method("validate_resume", <<f.susp>>),
                      field_return(f.susp, f.acc)).m
           g == Frame(m, f.self, f.value, f.given, f.kw)
       IN  /\ Store(m)
           /\ stack' = [stack EXCEPT ![Len(stack)] = [g EXCEPT !.start = f.start]]
    /\ UNCHANGED <<exc, cfg, done, frames, last, cmp, runs, probe, router>>

\* The outermost _validate returns, or raises, to its caller.
Finish ==
    /\ Len(stack) = 1
    /\ Top.status = "done"
    /\ exc' = Top.exc
    /\ stack' = <<>>
    /\ done' = Append(done, [doc |-> hist.doc, cfg |-> cfg, exc |-> Top.exc,
                             errors |-> LogKeys(inst["manifest"].errors),
                             nerr |-> hist.nerr])
    /\ runs' = runs + 1
    /\ UNCHANGED <<inst, cls_log_error, cls_log_warning, caught, cfg, hist, frames, last, cmp, probe, router>>

\* iv.fail_fast = b, between two calls
SetFailFast(b) ==
    /\ stack = <<>>
    /\ runs < MaxRuns
    /\ cfg.fail_fast # b
    /\ cfg' = [cfg EXCEPT !.fail_fast = b]
    /\ UNCHANGED <<inst, cls_log_error, cls_log_warning, caught, exc, hist, stack, done,
                   frames, last, cmp, runs, probe, router>>

Next ==
    \/ \E doc \in Docs : Validate(doc)
    \/ SubValidate
    \/ SubReturn
    \/ Complete
    \/ Finish
    \/ \E b \in BOOLEAN : SetFailFast(b)

Spec == Init /\ [][Next]_vars

----------------------------------------------------------------------------
(* The coercion wrappers at work on a BaseValidator: check functions that
   log, wrapped in errors_to_warnings, warnings_to_errors and mute_errors,
   one inside the other. *)

WrapperKinds == {"errors_to_warnings", "warnings_to_errors", "mute_errors"}
LogMsgs == {"test error", "test warning"}

\* The local variables of a wrapper in progress, and what it found when it
\* was entered (history).
Wrapper(kind, old) ==
    [kind |-> kind, old |-> old,
     log_error |-> cls_log_error, log_warning |-> cls_log_warning,
     errors |-> inst["base"].errors, warnings |-> inst["base"].warnings]

Innermost == frames[Len(frames)]
InnermostKind == IF frames = <<>> THEN "" ELSE Innermost.kind

StoreBase(m) ==
    /\ inst' = m.inst
    /\ cls_log_error' = m.log_error
    /\ cls_log_warning' = m.log_warning
    /\ caught' = m.caught
    /\ exc' = m.exc

\* A wrapped function is called: the wrapper saves the binding and patches
\* the class.
Enter(kind) ==
    /\ exc = "none"
    /\ Len(frames) < MaxDepth
    /\ LET m == CASE kind = "errors_to_warnings" -> coerce_errors_enter(Machine)
                  [] kind = "warnings_to_errors" -> coerce_warnings_enter(Machine)
                  [] kind = "mute_errors" -> mute_errors_enter(Machine)
           old == IF kind = "warnings_to_errors" THEN cls_log_warning ELSE cls_log_error
       IN  /\ StoreBase(m)
           /\ frames' = Append(frames, Wrapper(kind, old))
    /\ last' = [NoLast EXCEPT !.op = "enter", !.kind = kind, !.n = last.n]
    /\ UNCHANGED <<cfg, hist, stack, done, cmp, runs, probe, router>>

\* What a call has in front of it.
Before(op, msg) ==
    [NoLast EXCEPT !.op = op, !.kind = InnermostKind, !.msg = msg, !.n = last.n + 1,
                   !.errors = inst["base"].errors, !.warnings = inst["base"].warnings,
                   !.log_error = IF frames = <<>> THEN cls_log_error
                                 ELSE Innermost.log_error,
                   !.log_warning = IF frames = <<>> THEN cls_log_warning
                                   ELSE Innermost.log_warning]

\* The function calls self.log_error("fake field", msg).
CallLogError(msg) ==
    /\ exc = "none"
    /\ last.n < MaxLogCalls
    /\ StoreBase(call_log_error(Machine, "base", "fake field", Msg(msg, <<>>)))
    /\ last' = Before("log_error", msg)
    /\ UNCHANGED <<cfg, hist, stack, done, frames, cmp, runs, probe, router>>

\* The function calls self.log_warning("fake field", msg).
CallLogWarning(msg) ==
    /\ exc = "none"
    /\ last.n < MaxLogCalls
    /\ StoreBase(call_log_warning(Machine, "base", "fake field", Msg(msg, <<>>)))
    /\ last' = Before("log_warning", msg)
    /\ UNCHANGED <<cfg, hist, stack, done, frames, cmp, runs, probe, router>>

\* The wrapped function raises an exception of its own.
FnRaises ==
    /\ exc = "none"
    /\ frames # <<>>
    /\ exc' = "TypeError"
    /\ last' = [NoLast EXCEPT !.op = "raise", !.kind = InnermostKind, !.n = last.n]
    /\ UNCHANGED <<inst, cls_log_error, cls_log_warning, caught, cfg, hist, stack, done,
                   frames, cmp, runs, probe, router>>

\* The innermost wrapper is left, by return or by the exception on its way
\* up: its 'finally' puts the saved binding back.
Exit ==
    /\ frames # <<>>
    /\ LET w == Innermost
           m == CASE w.kind = "errors_to_warnings" -> coerce_errors_exit(Machine, w.old)
                  [] w.kind = "warnings_to_errors" -> coerce_warnings_exit(Machine, w.old)
                  [] w.kind = "mute_errors" -> mute_errors_exit(Machine, w.old)
           mute == w.kind = "mute_errors"
       IN  /\ inst' = m.inst
           /\ cls_log_error' = m.log_error
           /\ cls_log_warning' = m.log_warning
           /\ caught' = IF mute THEN SubSeq(caught, 1, Len(caught) - 1) ELSE caught
           /\ last' = [NoLast EXCEPT !.op = "exit", !.kind = w.kind, !.n = last.n,
                                     !.errors = w.errors, !.warnings = w.warnings,
                                     !.log_error = w.log_error,
                                     !.log_warning = w.log_warning,
                                     !.ret = IF mute THEN caught[Len(caught)] ELSE PySet]
    /\ frames' = SubSeq(frames, 1, Len(frames) - 1)
    /\ UNCHANGED <<exc, cfg, hist, stack, done, cmp, runs, probe, router>>

\* The caller of the outermost wrapper catches the exception.
Catch ==
    /\ frames = <<>>
    /\ exc # "none"
    /\ exc' = "none"
    /\ last' = [NoLast EXCEPT !.op = "catch", !.n = last.n]
    /\ UNCHANGED <<inst, cls_log_error, cls_log_warning, caught, cfg, hist, stack, done,
                   frames, cmp, runs, probe, router>>

NextCoerce ==
    \/ \E kind \in WrapperKinds : Enter(kind)
    \/ \E msg \in LogMsgs : CallLogError(msg)
    \/ \E msg \in LogMsgs : CallLogWarning(msg)
    \/ FnRaises
    \/ Exit
    \/ Catch

SpecCoerce == Init /\ [][NextCoerce]_vars

----------------------------------------------------------------------------
(* Validating a document and then its corrected output: the documents of
   this specification carry metadata, language objects, an image service
   and canvases with two images. *)

MetadataEntry(label, value) == Dict(Rec2("label", label, "value", value))
LangValue(v) == Dict(Rec2("@value", Str(v), "@language", Str("en")))
GoodService ==
    Dict(("@context" :> Str(IMAGE_API_2)) @@ ("@id" :> Str("http://s"))
             @@ ("profile" :> Str("http://p")))

RoundKinds ==
    {"good", "stale_canvas", "metadata", "metadata_extra", "lang_label", "service",
     "two_images", "two_images_badtype", "badtype", "stale_annotation",
     "raising_annotation"}

RoundDoc(kind) ==
    LET g == GoodManifest(List(<<GoodSequence(OneCanvas)>>))
        a == GoodAnnotation(CanvasUris[1])
        two == SetItem(Canvas(1, "ok"), "images", List(<<a, a>>))
    IN  CASE kind = "good" -> g
          [] kind = "stale_canvas" ->
               GoodManifest(List(<<GoodSequence(<<Canvas(1, "ok"), Canvas(2, "noid")>>)>>))
          [] kind = "metadata" ->
               SetItem(g, "metadata",
                   List(<<MetadataEntry(Str("l"), Str("v")),
                          MetadataEntry(LangValue("l"), List(<<LangValue("v"), Str("w")>>))>>))
          [] kind = "metadata_extra" ->
               SetItem(g, "metadata",
                   List(<<SetItem(MetadataEntry(Str("l"), Str("v")), "extra", Str("x"))>>))
          [] kind = "lang_label" -> SetItem(g, "label", List(<<LangValue("l"), LangValue("m")>>))
          [] kind = "service" ->
               SetItem(g, "thumbnail",
                   Dict(Rec2("@id", Str("http://x"), "service", GoodService)))
          [] kind = "two_images" -> GoodManifest(List(<<GoodSequence(<<two>>)>>))
          [] kind = "two_images_badtype" ->
               GoodManifest(List(<<GoodSequence(
                   <<SetItem(two, "@type", Str("sc:Wrong"))>>)>>))
          [] kind = "stale_annotation" ->
               GoodManifest(List(<<GoodSequence(
                   <<Canvas(1, "ok"),
                     SetItem(Canvas(2, "ok"), "images",
                         List(<<SetItem(GoodAnnotation(CanvasUris[2]), "@id", Num(5))>>))>>)>>))
          [] kind = "raising_annotation" ->
               GoodManifest(List(<<GoodSequence(
                   <<SetItem(Canvas(1, "ok"), "images",
                         List(<<SetItem(GoodAnnotation(CanvasUris[2]), "@id", Num(5))>>))>>)>>))
          [] kind = "badtype" -> GoodManifest(List(<<GoodSequence(<<Canvas(1, "badtype")>>)>>))

RoundDocs == {RoundDoc(k) : k \in RoundKinds}

\* ManifestValidator._validate(corrected_doc), from outside, after a first
\* call that returned: the output of the first call is validated by the
\* same validator objects.
Revalidate ==
    /\ stack = <<>>
    /\ runs = 1
    /\ probe.op = "none"
    /\ exc = "none"
    /\ LET doc == inst["manifest"].corrected_doc
           m == Apply([Machine EXCEPT !.h = [NoHist EXCEPT !.doc = doc]], "manifest",
                      Method("_validate", <<EmptyPath, NoKw>>), doc).m
       IN  /\ Store(m)
           /\ stack' = <<Frame(m, "manifest", doc, EmptyPath, NoKw)>>
    /\ probe' = [op |-> "revalidate", self |-> "manifest", doc |-> hist.doc,
                 errors |-> inst["manifest"].errors]
    /\ UNCHANGED <<exc, cfg, done, frames, last, cmp, runs, router>>

NextRound ==
    \/ \E doc \in RoundDocs : Validate(doc)
    \/ Revalidate
    \/ SubValidate
    \/ SubReturn
    \/ Complete
    \/ Finish

SpecRound == Init /\ [][NextRound]_vars

----------------------------------------------------------------------------
(* _compare_dicts at work on a BaseValidator, with the check functions of
   the tests: fake_valid, fake_invalid and fake_change. *)

SchemaKeys == <<"field_1", "field_2">>
ValueKeys == {"field_1", "field_3"}
FakeFns == {"fake_valid", "fake_invalid", "fake_change"}

\* {key: fn, ...} in insertion order; "absent" leaves the key out.
Present(pair) == pair[2].fn # "absent"
SchemaOf(choice) ==
    SelectSeq([i \in 1..Len(SchemaKeys) |-> <<SchemaKeys[i], Fn(choice[i])>>], Present)

TestSchemas == {SchemaOf(c) : c \in [1..Len(SchemaKeys) -> FakeFns \cup {"absent"}]}
TestValues ==
    {Dict(Restrict(("field_1" :> Str("value")) @@ ("field_3" :> Str("other")), ks)) :
        ks \in SUBSET ValueKeys}

\* self.test_subject._compare_dicts(schema, value)
CompareDicts(schema, value) ==
    /\ LET c == Apply([Machine EXCEPT !.h = NoHist], "base",
                      Method("_compare_dicts", <<schema>>), value)
       IN  /\ inst' = c.m.inst
           /\ exc' = c.m.exc
           /\ cmp' = [schema |-> schema, value |-> value, arg |-> c.arg,
                      r |-> IF Ok(c.m) THEN c.r ELSE None,
                      calls |-> [i \in 1..Len(c.m.h.calls) |-> c.m.h.calls[i][2]]]
    /\ UNCHANGED <<cls_log_error, cls_log_warning, caught, cfg, hist, stack, done,
                   frames, last, runs, probe, router>>

\* self.clear_errors_and_warnings() of the tests
ClearErrorsAndWarnings ==
    /\ LogNonEmpty(inst["base"].errors) \/ LogNonEmpty(inst["base"].warnings)
    /\ inst' = [inst EXCEPT !["base"].errors = PySet, !["base"].warnings = PySet]
    /\ UNCHANGED <<cls_log_error, cls_log_warning, caught, exc, cfg, hist, stack, done,
                   frames, last, cmp, runs, probe, router>>

NextDicts ==
    \/ \E schema \in TestSchemas, value \in TestValues : CompareDicts(schema, value)
    \/ ClearErrorsAndWarnings

SpecDicts == Init /\ [][NextDicts]_vars

----------------------------------------------------------------------------
(* Path objects and their suffix test, called directly. *)

\* Longest path of the suffix tests.
MaxPathLen == 3

PathSteps == {Field("a"), Field("b"), Index(0), Index(1)}

RECURSIVE PathsOfLen(_)
PathsOfLen(n) ==
    IF n = 0 THEN {<<>>}
    ELSE {Append(p, s) : p \in PathsOfLen(n - 1), s \in PathSteps}

Paths == UNION {PathsOfLen(n) : n \in 0..MaxPathLen}
PathPairs == Paths \X Paths

\* Path.__init__: the tuple and the cache of its index-free form.
NewPath(p) == [_path |-> p, no_index_path |-> <<"unset">>]

\* The property Path._no_index_path: computed on first use and cached.
no_index_path_get(P) ==
    IF P.no_index_path = <<"unset">>
    THEN [P EXCEPT !.no_index_path = _no_index_path(P._path)]
    ELSE P

\* The str-tuple of an index-free path.
RECURSIVE FieldNames(_)
FieldNames(p) == IF p = <<>> THEN <<>> ELSE <<Head(p).f>> \o FieldNames(Tail(p))

\* P.no_index_endswith(Q) for two Path objects: the objects after the call
\* and the returned value.
no_index_endswith_paths(P, Q) ==
    LET Q1 == no_index_path_get(Q)
        P1 == no_index_path_get(P)
    IN  [self |-> P1, path |-> Q1,
         r |-> no_index_endswith(P._path, FieldNames(Q1.no_index_path))]

\* Path(p).no_index_endswith(Path(q))
EndsWith(p, q) ==
    /\ probe.op = "none"
    /\ LET c == no_index_endswith_paths(NewPath(p), NewPath(q))
       IN  probe' = [op |-> "endswith", self |-> "", p |-> p, q |-> q,
                     after_p |-> c.self._path, after_q |-> c.path._path, r |-> c.r]
    /\ UNCHANGED <<inst, cls_log_error, cls_log_warning, caught, exc, cfg, hist, stack,
                   done, frames, last, cmp, runs, router>>

NextPaths == \E pq \in PathPairs : EndsWith(pq[1], pq[2])

\* The suffix test reads no setting of the validator.
InitPaths ==
    /\ Init
    /\ cfg = [fail_fast |-> FALSE, collect_errors |-> TRUE, collect_warnings |-> TRUE,
              unique_logging |-> TRUE]

SpecPaths == InitPaths /\ [][NextPaths]_vars

----------------------------------------------------------------------------
(* The field-classification pass at work on one validator: _reset, then
   _check_all_key_constraints on a fragment, as _validate and
   _run_validation call them. *)

ResourceValidators == {"manifest", "sequence", "canvas", "annotation", "image_content"}

\* A well-formed fragment of each resource.
GoodOf(self) ==
    CASE self = "manifest" -> GoodManifest(List(<<GoodSequence(OneCanvas)>>))
      [] self = "sequence" -> GoodSequence(OneCanvas)
      [] self = "canvas" -> GoodCanvas(CanvasUris[1])
      [] self = "annotation" -> GoodAnnotation(CanvasUris[1])
      [] self = "image_content" -> GoodResource

\* Keys every resource forbids, and a key no resource knows.
SomeForbidden == {"ranges", "first"}
SomeUnknown == {"unknown_key"}
RecStates == {"absent", "falsy", "truthy"}

RecValue(k) ==
    CASE k = "metadata" ->
           List(<<Dict(Rec2("label", Str("value"), "value", Str("value")))>>)
      [] k = "description" -> Str("value")
      [] OTHER -> Str("http://x")

\* The well-formed fragment without the keys of 'missing', with the keys of
\* forb and unk added, and with its recommended fields absent, falsy or
\* truthy.
KeyFragment(self, missing, forb, rs, unk) ==
    LET g == GoodOf(self)
        rec == RECOMMENDED_FIELDS(self)
        keys == ((DOMAIN g.d \ missing) \ rec) \cup forb \cup unk
                    \cup (IF rs = "absent" THEN {} ELSE rec)
    IN  Dict(Restrict([k \in keys |->
                          CASE k \in forb \cup unk -> Str("value")
                            [] k \in rec -> IF rs = "falsy" THEN Str("") ELSE RecValue(k)
                            [] OTHER -> g.d[k]], keys))

KeyFragments(self) ==
    {KeyFragment(self, missing, forb, rs, unk) :
        missing \in {s \in SUBSET REQUIRED_FIELDS(self) : Cardinality(s) <= 2},
        forb \in SUBSET SomeForbidden, rs \in RecStates, unk \in SUBSET SomeUnknown}

\* Values that are no JSON object.
NonObjects == {Str("value"), Num(1), List(<<>>), None}

ProbePaths == {EmptyPath, <<Field("sequences"), Index(0)>>}

\* validator._reset(path); validator._check_all_key_constraints(resource, value),
\* on validators nothing has been called on yet.
KeyConstraints(self, path, value) ==
    /\ probe.op = "none"
    /\ LET m0 == _reset([Machine EXCEPT !.h = NoHist], self, path)
           r == Apply(m0, self,
                      Method("_check_all_key_constraints", <<ResourceName(self)>>), value)
       IN  /\ inst' = r.m.inst
           /\ exc' = r.m.exc
           /\ probe' = [op |-> "keys", self |-> self, path |-> path, value |-> value,
                        r |-> r.r]
    /\ UNCHANGED <<cls_log_error, cls_log_warning, caught, cfg, hist, stack, done,
                   frames, last, cmp, runs,
                   router>>

\* Fragments with a field whose value its check function cannot handle: a
\* non-string '@id', a canvas without '@id', a non-object 'service'.
IncompatibleFragments(self) ==
    CASE self = "canvas" ->
           {DelItem(GoodOf(self), "@id"), SetItem(GoodOf(self), "@id", Num(1))}
      [] self = "image_content" ->
           {SetItem(GoodOf(self), "@id", Num(1)), SetItem(GoodOf(self), "@id", List(<<>>)),
            SetItem(GoodOf(self), "service", Str("value")),
            SetItem(GoodOf(self), "service", Num(1))}
      [] OTHER -> {}

\* validator._validate(value, path) with a value that is no JSON object or
\* has such a field, on validators nothing has been called on yet.
ValidateFragment(self, path, value) ==
    /\ probe.op = "none"
    /\ LET m == Apply([Machine EXCEPT !.h = NoHist], self,
                      Method("_validate", <<path, NoKw>>), value).m
       IN  /\ inst' = m.inst
           /\ exc' = m.exc
           /\ probe' = [op |-> "validate", self |-> self, path |-> path, value |-> value,
                        r |-> m.inst[self].corrected_doc]
    /\ UNCHANGED <<cls_log_error, cls_log_warning, caught, cfg, hist, stack, done,
                   frames, last, cmp, runs,
                   router>>

\* Text values: allowed markup, forbidden constructs, unknown tags, and
\* text that is no markup at all.
MarkupStrings ==
    {"<p><br/></p>", "<a href='u'>x</a>",
     "<script>x</script>", "<p><script>x</script></p>", "<foo><script>x</script></foo>",
     "<p><b>x</b><input/></p>", "<p><script>x</script><a target='t'>y</a></p>",
     "<!-- c -->", "<p>x<!-- c --></p>",
     "<![CDATA[x]]>", "<p><![CDATA[x]]></p>", "<p><![CDATA[a\nb]]></p>", "<![CDATA[a\nb]]>",
     "<foo>x</foo>", "<span><foo>x</foo></span>", "<foo><foo>x</foo></foo>",
     "<foo><bar>x</bar></foo>", "<p><foo/><foo/></p>", "<foo><a target='t'>x</a></foo>",
     "<a target='t'>x</a>", "this is <a>bad</a>", "<p>unclosed", "plain"}

\* Where a text value is checked: the validator's path and the field.
Site(path, field) == [path |-> path, field |-> field]
PermittedSites ==
    {Site(EmptyPath, "description"), Site(EmptyPath, "attribution"),
     Site(<<Field("metadata"), Index(0)>>, "value"),
     Site(<<Field("metadata"), Index(1)>>, "label"),
     Site(<<Field("sequences"), Index(0), Field("label"), Index(0)>>, "@value")}
OtherSites ==
    {Site(EmptyPath, "label"), Site(EmptyPath, "@id"),
     Site(<<Field("sequences"), Index(0)>>, "label"),
     Site(<<Field("description"), Index(0)>>, "@language"),
     Site(<<Field("metadata")>>, "description_of")}

\* validator._check_html(field, value) on a validator reset to the path.
CheckHtml(self, site, s) ==
    /\ probe.op = "none"
    /\ LET m0 == _reset([Machine EXCEPT !.h = NoHist], self, site.path)
           m == Apply(m0, self, Method("_check_html", <<site.field>>), Str(s)).m
       IN  /\ inst' = m.inst
           /\ exc' = m.exc
           /\ probe' = [op |-> "html", self |-> self, path |-> site.path,
                        value |-> s, site |-> site]
    /\ UNCHANGED <<cls_log_error, cls_log_warning, caught, cfg, hist, stack, done,
                   frames, last, cmp, runs,
                   router>>

\* Entries of a 'metadata' list: a good one, and one for each Error of
\* _metadata_entry and of the label's type check.
MetadataKinds == {"ok", "nondict", "nolabel", "novalue", "badlabel"}
MetadataEntryOf(kind) ==
    CASE kind = "ok" -> Dict(Rec2("label", Str("l"), "value", Str("v")))
      [] kind = "nondict" -> Str("entry")
      [] kind = "nolabel" -> Dict("value" :> Str("v"))
      [] kind = "novalue" -> Dict("label" :> Str("l"))
      [] kind = "badlabel" -> Dict(Rec2("label", Num(1), "value", Str("v")))
MetadataValues ==
    {Str("metadata"), List(<<>>)}
        \cup {List(<<MetadataEntryOf(a)>>) : a \in MetadataKinds}
        \cup {List(<<MetadataEntryOf(a), MetadataEntryOf(b)>>) : a, b \in MetadataKinds}
MetadataValidators == {"manifest", "canvas"}

\* validator.metadata_field(value) on a validator reset to the path.
CheckMetadata(self, path, value) ==
    /\ probe.op = "none"
    /\ LET m0 == _reset([Machine EXCEPT !.h = NoHist], self, path)
           r == Apply(m0, self, Method("metadata_field", <<>>), value)
       IN  /\ inst' = r.m.inst
           /\ exc' = r.m.exc
           /\ probe' = [op |-> "metadata", self |-> self, path |-> path, value |-> value,
                        r |-> r.r]
    /\ UNCHANGED <<cls_log_error, cls_log_warning, caught, cfg, hist, stack, done,
                   frames, last, cmp, runs,
                   router>>

\* The (validator, value) pairs of the two calls above.
KeyProbes ==
    UNION {{<<self, value>> : value \in KeyFragments(self) \cup NonObjects} :
               self \in ResourceValidators}
FragmentProbes ==
    UNION {{<<self, value>> : value \in NonObjects \cup IncompatibleFragments(self)} :
               self \in ResourceValidators}

NextKeys ==
    \/ \E p \in KeyProbes, path \in ProbePaths : KeyConstraints(p[1], path, p[2])
    \/ \E p \in FragmentProbes, path \in ProbePaths : ValidateFragment(p[1], path, p[2])
    \/ \E self \in ResourceValidators, site \in PermittedSites \cup OtherSites :
           \E s \in MarkupStrings : CheckHtml(self, site, s)
    \/ \E self \in MetadataValidators, path \in ProbePaths :
           \E value \in MetadataValues : CheckMetadata(self, path, value)

SpecKeys == Init /\ [][NextKeys]_vars

----------------------------------------------------------------------------
(* One router object validating one input after another. *)

MaxCalls == 2

RouterKeys(ty) ==
    {SetItem(SetItem(EmptyDict, "@type", Str(ty)), "label", l) : l \in {Str("l"), Num(1)}}
        \cup {SetItem(EmptyDict, "@type", Str(ty))}
\* Manifests and sequences with and without a label and a forbidden key.
TypedDocs ==
    LET plain == RouterKeys("sc:Manifest") \cup RouterKeys("sc:Sequence")
    IN  plain \cup {SetItem(d, "height", Num(1)) : d \in plain}
\* Text that is no JSON, and documents without '@type' or with one the
\* router has no validator for, as objects and as text.
BadTexts == {Str("not json"), Str("{")}
UntypedDocs ==
    {SetItem(EmptyDict, "label", Str("l")), SetItem(EmptyDict, "@type", Str("sc:Unknown")),
     EmptyDict, Str("{\"@type\": \"sc:Unknown\"}"), Str("{\"label\": \"l\"}")}
RouterInputs == TypedDocs \cup BadTexts \cup UntypedDocs \cup {Str("{\"@type\": \"sc:Sequence\"}")}

\* iiif_validator.validate(json_dict), from outside; an exception of the
\* call before has reached the caller, and the next call starts without it.
RouterValidate(json_dict) ==
    /\ router.calls < MaxCalls
    /\ router' = [T_IIIFValidator_validate([router EXCEPT !.exc = "none", !.invoked = {}],
                                           json_dict)
                     EXCEPT !.calls = router.calls + 1, !.doc = json_dict,
                            !.before = router.doc]
    /\ UNCHANGED <<inst, cls_log_error, cls_log_warning, caught, exc, cfg, hist, stack,
                   done, frames, last, cmp, runs, probe>>

NextRouter == \E json_dict \in RouterInputs : RouterValidate(json_dict)

SpecRouter == Init /\ [][NextRouter]_vars

----------------------------------------------------------------------------
(* Fail-fast, dispatch, reset and validity. *)

\* The validator instance of the frame below the innermost one.
Parent == stack[Len(stack) - 1]

\* C1: with fail_fast enabled, once the first Error is logged in a top-level
\* call no check function runs afterwards and no second Error is logged.
C1_FailFastAbortsChain ==
    (stack # <<>> /\ cfg.fail_fast) => (hist.nerr <= 1 /\ hist.late = 0)

\* C2: when a _sub_validate call ends, whether the child's _validate returned
\* or raised, the caller's error log is its previous error log united with the
\* child's, and likewise its warning log.
C2_SubValidateMergesLogs ==
    [][(Len(stack) >= 2 /\ Top.status = "done" /\ Len(stack') = Len(stack) - 1) =>
          /\ LogKeys(inst'[Parent.self].errors) =
                 LogKeys(inst[Parent.self].errors) \cup LogKeys(inst[Top.self].errors)
          /\ LogKeys(inst'[Parent.self].warnings) =
                 LogKeys(inst[Parent.self].warnings) \cup LogKeys(inst[Top.self].warnings)
          /\ (~cfg.unique_logging =>
                 /\ Len(inst'[Parent.self].errors.entries) =
                        Len(inst[Parent.self].errors.entries)
                            + Len(inst[Top.self].errors.entries)
                 /\ Len(inst'[Parent.self].warnings.entries) =
                        Len(inst[Parent.self].warnings.entries)
                            + Len(inst[Top.self].warnings.entries))]_vars

\* A _sub_validate has just ended whose child aborted by fail-fast with its
\* Error logged, into a caller that already held an Error of its own.
C2_Witness ==
    /\ stack # <<>>
    /\ Top.status = "loop"
    /\ Top.i = 3
    /\ Top.raised[2] = "FailFastException"
    /\ Cardinality(LogKeys(inst[Top.self].errors)) = 2

\* C3: at the start of every _validate both logs are empty, the corrected
\* output is null and the path is the given one; a _sub_validate whose child
\* ended with an exception returns that call's own fragment.
C3_ResetClearsOutput ==
    \A k \in 1..Len(stack) :
        /\ ~LogNonEmpty(stack[k].start.errors)
        /\ ~LogNonEmpty(stack[k].start.warnings)
        /\ stack[k].start.corrected_doc = None
        /\ stack[k].start.path = stack[k].given
        /\ \A j \in 1..Len(stack[k].raised) :
               stack[k].raised[j] # "none" => stack[k].acc[j] = stack[k].susp.items[j]

\* C4: whenever a _validate call has ended, by return or by exception, is_valid
\* is set and is true exactly when the error log has no entry.
C4_ValidIffNoErrors ==
    (stack # <<>> /\ Top.status = "done") =>
        /\ inst[Top.self].is_valid \in {"True", "False"}
        /\ (inst[Top.self].is_valid = "True") <=> ~LogNonEmpty(inst[Top.self].errors)

\* A _validate has ended by a fail-fast abort, with warnings and an Error.
C4_Witness ==
    /\ stack # <<>>
    /\ Top.status = "done"
    /\ Top.exc = "FailFastException"
    /\ inst[Top.self].is_valid = "False"

\* C5: for every document, the Errors of a fail-fast validation are among the
\* Errors of a validation of the same document without fail-fast.
C5_FailFastOnlyHides ==
    \A a, b \in 1..Len(done) :
        (/\ done[a].doc = done[b].doc
         /\ done[a].cfg.fail_fast
         /\ ~done[b].cfg.fail_fast
         /\ done[a].cfg = [done[b].cfg EXCEPT !.fail_fast = TRUE])
        => done[a].errors \subseteq done[b].errors

\* The same document validated both ways, fail-fast having hidden an Error.
C5_Witness ==
    \E a, b \in 1..Len(done) :
        /\ done[a].doc = done[b].doc
        /\ done[a].cfg.fail_fast
        /\ ~done[b].cfg.fail_fast
        /\ done[a].errors # {}
        /\ done[a].errors # done[b].errors

----------------------------------------------------------------------------
(* Severity coercion. *)

\* The entry the last log call was about.
LastEntry == Entry(Msg(last.msg, <<>>), PathAdd(inst["base"].path, Field("fake field")))
Errors == inst["base"].errors
Warnings == inst["base"].warnings

C8_CoercionIsScoped ==
    /\ last.op = "exit" =>
          /\ cls_log_error = last.log_error
          /\ cls_log_warning = last.log_warning
    /\ frames = <<>> => (cls_log_error = F_log_error /\ cls_log_warning = F_log_warning)
    /\ (last.op = "log_error" /\ last.kind = "" /\ cfg.collect_errors) =>
          (LastEntry \in LogSet(Errors) /\ Warnings = last.warnings)
    /\ (last.op = "log_warning" /\ last.kind = "" /\ cfg.collect_warnings) =>
          (LastEntry \in LogSet(Warnings) /\ Errors = last.errors)
    /\ last.op \in {"exit", "log_error", "log_warning"} =>
          /\ LogSet(last.errors) \subseteq LogSet(Errors)
          /\ LogSet(last.warnings) \subseteq LogSet(Warnings)

\* An inner wrapper has just been left by an exception while an outer
\* wrapper's patch is still in force.
C8_Witness ==
    /\ last.op = "exit"
    /\ exc # "none"
    /\ frames # <<>>
    /\ cls_log_warning # F_log_warning
    /\ cls_log_error # F_log_error

\* C9: mute_errors leaves the validator's error log as it was before the call
\* and raises no FailFastException.
C9_MuteErrorsKeepsLog ==
    (last.op = "exit" /\ last.kind = "mute_errors") =>
        (Errors = last.errors /\ exc # "FailFastException")

----------------------------------------------------------------------------
(* Schema application. *)

\* What each check function of the tests returns for v.
FakeResult(fn, v) == IF fn = "fake_change" THEN fake_change_str(v) ELSE v
SchemaFn(schema, k) ==
    LET i == CHOOSE j \in 1..Len(schema) : schema[j][1] = k IN schema[i][2].fn
InSchema(schema, k) == \E j \in 1..Len(schema) : schema[j][1] = k

\* C10: _compare_dicts returns an object with exactly the keys of value; a key
\* of both holds the check function's result, every other key its old entry;
\* the functions of schema keys absent from value are not called; the object
\* passed in is left as it was.
C10_CompareDicts ==
    cmp # None =>
        /\ cmp.arg = cmp.value
        /\ cmp.calls = SelectSeq([j \in 1..Len(cmp.schema) |-> cmp.schema[j][1]],
                                 LAMBDA k : k \in DOMAIN cmp.value.d)
           \/ exc # "none"
        /\ exc = "none" =>
              /\ DOMAIN cmp.r.d = DOMAIN cmp.value.d
              /\ \A k \in DOMAIN cmp.value.d :
                     cmp.r.d[k] = IF InSchema(cmp.schema, k)
                                  THEN FakeResult(SchemaFn(cmp.schema, k), cmp.value.d[k])
                                  ELSE cmp.value.d[k]

\* A call has returned that changed one entry, with a schema key the value
\* lacks and a value key the schema lacks.
C10_Witness ==
    /\ cmp # None
    /\ exc = "none"
    /\ cmp.r # cmp.value
    /\ \E j \in 1..Len(cmp.schema) : cmp.schema[j][1] \notin DOMAIN cmp.value.d
    /\ \E k \in DOMAIN cmp.value.d : ~InSchema(cmp.schema, k)

----------------------------------------------------------------------------
(* The field-classification pass. *)

KeyMsg(fmt, k, self) == Msg(fmt, <<Str(k), Str(ResourceName(self))>>)
ForbiddenEntries(self, p, d) ==
    {Entry(KeyMsg("Key '{}' is not allowed in '{}'", k, self), PathAdd(p, Field(k))) :
        k \in DOMAIN d \cap FORBIDDEN_FIELDS(self)}
RequiredEntries(self, p, d) ==
    {Entry(KeyMsg("Key '{}' is required in '{}'", k, self), PathAdd(p, Field(k))) :
        k \in REQUIRED_FIELDS(self) \ DOMAIN d}
RecommendedEntries(self, p, d) ==
    {Entry(Msg("{} SHOULD have {} field.", <<Str(ResourceName(self)), Str(k)>>),
           PathAdd(p, Field(k))) :
        k \in {x \in RECOMMENDED_FIELDS(self) : x \notin DOMAIN d \/ ~Truthy(d[x])}}
UnknownEntries(self, p, d) ==
    {Entry(KeyMsg("Unknown key '{}' in '{}'", k, self), PathAdd(p, Field(k))) :
        k \in DOMAIN d \ KNOWN_FIELDS(self)}

KeyFormats ==
    {"Key '{}' is not allowed in '{}'", "Key '{}' is required in '{}'",
     "{} SHOULD have {} field.", "Unknown key '{}' in '{}'"}
IsKeyEntry(e) == e.msg.fmt \in KeyFormats

\* The entries of 'first' and 'then' are each once in seq, none else is, and
\* those of 'first' come before those of 'then'.
InOrder(seq, first, then) ==
    /\ Len(seq) = Cardinality(first \cup then)
    /\ {seq[i] : i \in 1..Len(seq)} = first \cup then
    /\ \A i, j \in 1..Len(seq) : (seq[i] \in then /\ seq[j] \in first) => j < i

ProbeErrors == inst[probe.self].errors.entries
ProbeWarnings == inst[probe.self].warnings.entries

TypeFaults == {"TypeError", "KeyError", "AttributeError"}

\* C12: validating a fragment that is no JSON object logs one Error naming
\* the expected resource kind and nothing else, marks the fragment invalid
\* and raises no type fault.  (Read where Errors are collected.)
C12_NonObjectFragment ==
    (probe.op = "validate" /\ ~isinstance(probe.value, "dict") /\ cfg.collect_errors) =>
        /\ Len(ProbeErrors) = 1
        /\ ProbeErrors[1].msg =
               Msg("'{}' must be json-object, not {}",
                   <<Str(ResourceName(probe.self)), Str(type_name(probe.value))>>)
        /\ ProbeWarnings = <<>>
        /\ inst[probe.self].is_valid = "False"
        /\ exc \notin TypeFaults

\* C13: without fail_fast, validating a fragment with a field whose value its
\* check cannot handle raises no type fault and leaves an Error in the log.
\* (The log is read where Errors are collected.)
C13_IncompatibleFieldIsLocalError ==
    (probe.op = "validate" /\ isinstance(probe.value, "dict") /\ ~cfg.fail_fast) =>
        /\ exc \notin TypeFaults
        /\ cfg.collect_errors => Len(ProbeErrors) >= 1

----------------------------------------------------------------------------
(* Deduplication. *)

\* Manifests whose sequence holds N >= 2 canvases with the same defect.
IdenticalCanvasDocs ==
    {GoodManifest(List(<<GoodSequence(Canvases([i \in 1..n |-> k], n))>>)) :
        n \in 2..MaxCanvases, k \in CanvasKinds}
NumCanvases(doc) == Len(doc.d["sequences"].items[1].d["canvases"].items)

CountKey(log, key) == Len(SelectSeq(log.entries, LAMBDA e : EntryKey(e) = key))
IsCanvasKey(key) ==
    Len(key.path) >= 2 /\ key.path[1] = Field("sequences") /\ key.path[2] = Field("canvases")

\* Every message of the log is held once under unique logging; without it a
\* message of the canvases is held once per canvas.
CountsAsClaimed(log, n) ==
    \A key \in LogKeys(log) :
        CountKey(log, key) = IF ~cfg.unique_logging /\ IsCanvasKey(key) THEN n ELSE 1

\* C14: after validating N >= 2 canvases with the same defect the final log
\* holds each distinct message once under unique logging and N times without
\* it; under unique logging the keys of a merged log do not depend on the
\* order of the merge.
C14_UniqueLoggingCollapses ==
    (/\ Len(stack) = 1 /\ Top.status = "done" /\ Top.exc = "none"
     /\ ~cfg.fail_fast /\ hist.doc \in IdenticalCanvasDocs) =>
        /\ CountsAsClaimed(inst["manifest"].errors, NumCanvases(hist.doc))
        /\ CountsAsClaimed(inst["manifest"].warnings, NumCanvases(hist.doc))
        /\ cfg.unique_logging =>
               \A v, w \in {"manifest", "sequence", "canvas"} :
                   LET vw == LogUnion(inst[v].errors, inst[w].errors)
                       wv == LogUnion(inst[w].errors, inst[v].errors)
                   IN  /\ LogKeys(vw) = LogKeys(wv)
                       /\ Len(vw.entries) = Cardinality(LogKeys(vw))
                       /\ Len(wv.entries) = Cardinality(LogKeys(wv))

----------------------------------------------------------------------------
(* Markup in text values. *)

\* Well-formed markup that uses allowed tags and allowed attributes only.
AllowedMarkup == {"<p><br/></p>", "<a href='u'>x</a>"}

\* C15: for a value that is well-formed markup of allowed tags and
\* attributes, _check_html logs nothing when path plus field ends, indices
\* ignored, with a markup-permitted suffix, and otherwise logs exactly one
\* Error ("HTML not allowed in this field.") and no Warning.  (The Error
\* is read where errors are collected.)
C15_AllowedMarkupByPath ==
    (probe.op = "html" /\ probe.value \in AllowedMarkup) =>
        /\ ProbeWarnings = <<>>
        /\ probe.site \in PermittedSites => (ProbeErrors = <<>> /\ exc = "none")
        /\ (probe.site \in OtherSites /\ cfg.collect_errors) =>
               /\ Len(ProbeErrors) = 1
               /\ ProbeErrors[1] = Entry(Msg("HTML not allowed in this field.", <<>>),
                                         PathAdd(probe.path, Field(probe.site.field)))

\* "<p><br/></p>" has been checked at the top-level 'label', where markup
\* is not permitted, and has left its one Error.
C15_Witness ==
    /\ probe.op = "html" /\ probe.value = "<p><br/></p>" /\ cfg.collect_errors
    /\ probe.site = Site(EmptyPath, "label") /\ Len(ProbeErrors) = 1

\* Values with a forbidden tag at some depth, an XML comment or a CDATA
\* section, alone or inside other markup.
ForbiddenConstructs ==
    {"<script>x</script>", "<p><script>x</script></p>", "<foo><script>x</script></foo>",
     "<p><b>x</b><input/></p>",
     "<!-- c -->", "<p>x<!-- c --></p>",
     "<![CDATA[x]]>", "<p><![CDATA[x]]></p>", "<p><![CDATA[a\nb]]></p>", "<![CDATA[a\nb]]>"}

\* C16: a value with a forbidden tag at any depth, an XML comment or a CDATA
\* section makes _check_html log at least one Error, at a markup-permitted
\* site and at any other, whatever markup surrounds the construct.  (The
\* Error is read where errors are collected.)
C16_ForbiddenConstructIsError ==
    (probe.op = "html" /\ probe.value \in ForbiddenConstructs /\ cfg.collect_errors) =>
        Len(ProbeErrors) >= 1

----------------------------------------------------------------------------

\* The tags outside HTML_ALLOWED_TAGS in a tree, one per element, in the
\* order of the walk.
RECURSIVE UnknownTags(_)
RECURSIVE UnknownTagsOfAll(_)
UnknownTags(elem) ==
    (IF elem.tag \in HTML_ALLOWED_TAGS THEN <<>> ELSE <<elem.tag>>)
        \o UnknownTagsOfAll(elem.children)
UnknownTagsOfAll(elems) ==
    IF elems = <<>> THEN <<>> ELSE UnknownTags(Head(elems)) \o UnknownTagsOfAll(Tail(elems))

\* Well-formed values of allowed and unknown tags, without a forbidden tag
\* and without a disallowed attribute.
UnknownTagMarkup ==
    {"<p><br/></p>", "<foo>x</foo>", "<span><foo>x</foo></span>",
     "<foo><foo>x</foo></foo>", "<foo><bar>x</bar></foo>", "<p><foo/><foo/></p>"}
\* Values with a violation under an unknown tag.
UnknownOverViolation == {"<foo><script>x</script></foo>", "<foo><a target='t'>x</a></foo>"}

UncertainWarning(tag, site) ==
    Entry(Msg("HTML tag '<{}>' of uncertain validity", <<Str(tag)>>),
          PathAdd(site.path, Field(site.field)))
Range(seq) == {seq[i] : i \in 1..Len(seq)}

\* C17 as stated: at a markup-permitted site a well-formed value of allowed
\* and unknown tags yields no Error and exactly one Warning per unknown tag
\* element.
C17_OneWarningPerUnknownElement ==
    (probe.op = "html" /\ probe.site \in PermittedSites /\ probe.value \in UnknownTagMarkup) =>
        /\ ProbeErrors = <<>>
        /\ Len(ProbeWarnings) = Len(UnknownTags(HtmlInfo(probe.value).tree))

\* C17, amended: at a markup-permitted site such a value yields no Error
\* and, where warnings are collected, the Warnings of its unknown tag
\* elements in the order of the walk: one per element without unique
\* logging, one per distinct unknown tag with it; and a violation under an
\* unknown tag is still reported as an Error after the tag's Warning.
C17_UnknownTagWarnsAndDescends ==
    (probe.op = "html" /\ probe.site \in PermittedSites) =>
        /\ probe.value \in UnknownTagMarkup =>
               LET tags == UnknownTags(HtmlInfo(probe.value).tree)
               IN  /\ ProbeErrors = <<>> /\ exc = "none"
                   /\ cfg.collect_warnings =>
                          /\ Range(ProbeWarnings) =
                                 {UncertainWarning(t, probe.site) : t \in Range(tags)}
                          /\ Len(ProbeWarnings) =
                                 IF cfg.unique_logging THEN Cardinality(Range(tags))
                                 ELSE Len(tags)
        /\ probe.value \in UnknownOverViolation =>
               /\ cfg.collect_warnings =>
                      ProbeWarnings = <<UncertainWarning("foo", probe.site)>>
               /\ cfg.collect_errors => Len(ProbeErrors) = 1

\* "<foo><bar>x</bar></foo>" has been checked at a markup-permitted site and
\* has left the Warnings of both tags.
C17_Witness ==
    /\ probe.op = "html" /\ probe.site \in PermittedSites
    /\ probe.value = "<foo><bar>x</bar></foo>"
    /\ Len(ProbeWarnings) = 2 /\ ProbeErrors = <<>>

----------------------------------------------------------------------------
(* Lists of sequences and canvases. *)

\* The top-level call has ended.
Ended == Len(stack) = 1 /\ Top.status = "done"
\* No check function of validator v has run in the current top-level call,
\* and in the first call the validator still is as constructed.
NotInvoked(v) ==
    /\ \A i \in 1..Len(hist.calls) : hist.calls[i][1] # v
    /\ done = <<>> => inst[v] = NewInstance
OnlyError(fmt, path) ==
    inst["manifest"].errors.entries = <<Entry(Msg(fmt, <<>>), path)>>

\* C18: an otherwise valid manifest whose 'sequences' is not a list gets
\* exactly one Error, at ('sequences'), and the sequence validator is not
\* invoked; one whose single sequence has an empty 'canvases' list gets
\* exactly one Error, at ('sequences', 0, 'canvases'), and the canvas
\* validator is not invoked.  (The Error is read where errors are
\* collected.)
C18_BadListsStopDescent ==
    Ended =>
        /\ hist.doc \in {Defective("seq_notlist"), Defective("seq_object")} =>
               /\ NotInvoked("sequence") /\ NotInvoked("canvas")
               /\ cfg.collect_errors =>
                      OnlyError("'sequences' MUST be a list", <<Field("sequences")>>)
        /\ hist.doc = Defective("no_canvases") =>
               /\ NotInvoked("canvas")
               /\ cfg.collect_errors =>
                      OnlyError("'canvases' MUST have at least one entry",
                                <<Field("sequences"), Index(0), Field("canvases")>>)

\* A manifest whose sequence has no canvas has been validated after another
\* document: its one Error is in the log and no canvas check has run.
C18_Witness ==
    /\ Ended /\ done # <<>> /\ hist.doc = Defective("no_canvases")
    /\ Len(inst["manifest"].errors.entries) = 1
    /\ NotInvoked("canvas")

----------------------------------------------------------------------------
(* The router. *)

\* What a router object that has validated nothing before yields for doc.
FreshRouter(doc) == T_IIIFValidator_validate(NewRouter, doc)

\* C19: after validate(D1) and then validate(D2) on one router object, for
\* documents of a type the router has a validator for, its errors, its
\* warnings, is_valid and the corrected document are those a fresh router
\* object yields for validate(D2).
C19_ReusedRouterEqualsFresh ==
    (router.calls = 2 /\ router.before \in TypedDocs /\ router.doc \in TypedDocs) =>
        LET fresh == FreshRouter(router.doc)
        IN  /\ router.errors = fresh.errors
            /\ router.warnings = fresh.warnings
            /\ router.is_valid = fresh.is_valid
            /\ router.corrected_doc = fresh.corrected_doc

\* C20: for text that is no JSON and for a document whose '@type' is
\* missing or has no validator, validate logs exactly one Error, at the
\* empty path, sets is_valid to false, invokes no validator and returns
\* without raising.
C20_UnrecoverableInputIsOneError ==
    (router.calls = 1 /\ router.doc \in BadTexts \cup UntypedDocs) =>
        /\ Cardinality(router.errors) = 1
        /\ \A e \in router.errors : e.path = EmptyPath
        /\ router.is_valid = "False"
        /\ router.invoked = {}
        /\ router.exc = "none"

----------------------------------------------------------------------------
(* The corrected output and the round trip. *)

RECURSIVE SameShape(_, _)
\* The same keys in every object and the same length of every list.
SameShape(a, b) ==
    CASE isinstance(a, "dict") ->
             /\ isinstance(b, "dict")
             /\ DOMAIN a.d = DOMAIN b.d
             /\ \A k \in DOMAIN a.d : SameShape(a.d[k], b.d[k])
      [] isinstance(a, "list") ->
             /\ isinstance(b, "list")
             /\ Len(a.items) = Len(b.items)
             /\ \A i \in 1..Len(a.items) : SameShape(a.items[i], b.items[i])
      [] OTHER -> ~isinstance(b, "dict") /\ ~isinstance(b, "list")

\* The first call on fresh validators has returned without an Error, with
\* Errors collected.
FirstPassClean ==
    /\ stack = <<>>
    /\ runs = 1
    /\ probe.op = "none"
    /\ exc = "none"
    /\ cfg.collect_errors
    /\ hist.nerr = 0
    /\ ~LogNonEmpty(inst["manifest"].errors)

\* C21: a document that validates with zero Errors comes back with the
\* same shape: the corrected output has the keys of the input in every
\* object and the length of the input in every list.
C21_CorrectedKeepsShape ==
    FirstPassClean => SameShape(inst["manifest"].corrected_doc, hist.doc)

\* The call on the corrected output of the first call has ended.
SecondPassDone ==
    /\ stack = <<>>
    /\ runs = 2
    /\ probe.op = "revalidate"
    /\ cfg.collect_errors

\* C22: validating the corrected output of a first validation yields no
\* Error the first validation did not yield; after a first pass with zero
\* Errors the second pass has zero Errors, returns, and its corrected
\* output equals its input.
C22_RoundTrip ==
    SecondPassDone =>
        /\ LogSet(inst["manifest"].errors) \subseteq LogSet(probe.errors)
        /\ ~LogNonEmpty(probe.errors) =>
               /\ ~LogNonEmpty(inst["manifest"].errors)
               /\ exc = "none"
               /\ inst["manifest"].corrected_doc = hist.doc


----------------------------------------------------------------------------
(* The suffix test of paths. *)

\* The last n steps of the sequence s.
LastSteps(s, n) == SubSeq(s, Len(s) - n + 1, Len(s))
Shorter(a, b) == IF Len(a) <= Len(b) THEN Len(a) ELSE Len(b)

\* C23: p.no_index_endswith(q) is true exactly when the index-free forms
\* of p and q, aligned at their ends, agree on every step of the shorter
\* one, whichever of the two is the shorter; p and q are not modified.
C23_EndsWithEitherShorter ==
    probe.op = "endswith" =>
        LET np == _no_index_path(probe.p)
            nq == _no_index_path(probe.q)
            n == Shorter(np, nq)
        IN  /\ probe.r = (LastSteps(np, n) = LastSteps(nq, n))
            /\ probe.after_p = probe.p
            /\ probe.after_q = probe.q

\* C23 (as the code has it): p.no_index_endswith(q) is true exactly when
\* the index-free form of q is no longer than the index-free form of p and
\* equals its last steps; it is false when q has more field-name steps
\* than p; p and q are not modified.
C23_EndsWithSuffix ==
    probe.op = "endswith" =>
        LET np == _no_index_path(probe.p)
            nq == _no_index_path(probe.q)
        IN  /\ probe.r = (Len(nq) <= Len(np) /\ LastSteps(np, Len(nq)) = nq)
            /\ probe.after_p = probe.p
            /\ probe.after_q = probe.q

\* The test of ('sequences', 0, 'metadata', 1) against
\* ('sequences', 1, 'metadata'), with other names: true with different
\* indices in both.
C23_Witness ==
    /\ probe.op = "endswith"
    /\ probe.p = <<Field("a"), Index(0), Field("b")>>
    /\ probe.q = <<Index(1), Field("b")>>
    /\ probe.r

----------------------------------------------------------------------------
(* The hook at the end of _validate. *)

ThumbnailWarning ==
    Msg("Canvas SHOULD have a thumbnail when there is more than one image", <<>>)

\* The canvas validator's _validate has just ended without an exception,
\* with Errors and Warnings collected.
CanvasEnded ==
    /\ stack # <<>>
    /\ Top.self = "canvas"
    /\ Top.status = "done"
    /\ Top.exc = "none"
    /\ cfg.collect_errors
    /\ cfg.collect_warnings

\* C24: within one _validate call the hook _raise_additional_warnings runs
\* only if no Error has been logged for the fragment: a canvas with an
\* Error gets no thumbnail warning.
C24_HookOnlyWithoutError ==
    (CanvasEnded /\ LogNonEmpty(inst["canvas"].errors)) =>
        \A e \in LogSet(inst["canvas"].warnings) : e.msg # ThumbnailWarning

----------------------------------------------------------------------------
(* The paths of list elements. *)

ListFields == {"sequences", "canvases", "images"}

\* C25: element i of 'sequences', 'canvases' and 'images' is handed to its
\* validator with the path parent-path + field name + i.
C25_ElementPathHasIndex ==
    \A k \in 2..Len(stack) :
        LET parent == stack[k - 1]
        IN  parent.susp.key \in ListFields =>
                stack[k].given =
                    PathAdd(PathAdd(parent.given, Field(parent.susp.key)), Index(parent.i - 1))

----------------------------------------------------------------------------
(* The walk of a markup tree. *)

\* The Errors of a walk that leaves out the subtree of a violating element
\* and nothing else: one per forbidden tag or disallowed attribute that is
\* not below another violation.
RECURSIVE BranchErrors(_)
RECURSIVE BranchErrorsOfAll(_)
BranchErrors(elem) ==
    IF elem.tag \in HTML_FORBIDDEN_TAGS
    THEN <<Msg("Forbidden tag '<{}>' in html.", <<Str(elem.tag)>>)>>
    ELSE LET bad == SelectSeq(elem.attrs, LAMBDA a : a \notin HTML_ALLOWED_ATTRIBUTES(elem.tag))
         IN  IF bad # <<>>
             THEN <<Msg("HTML tag '<{}>' not allowed attribute '{}'.",
                        <<Str(elem.tag), Str(Head(bad))>>)>>
             ELSE BranchErrorsOfAll(elem.children)
BranchErrorsOfAll(elems) ==
    IF elems = <<>> THEN <<>>
    ELSE BranchErrors(Head(elems)) \o BranchErrorsOfAll(Tail(elems))

\* _check_html has walked the tree of a well-formed value at a
\* markup-permitted site, with fail_fast off and Errors collected.
TreeWalked ==
    /\ probe.op = "html"
    /\ probe.site \in PermittedSites
    /\ ~cfg.fail_fast
    /\ cfg.collect_errors
    /\ LET info == HtmlInfo(probe.value)
       IN  info.tags /\ info.lt /\ ~info.comments /\ ~info.cdata /\ info.tree # None

\* C26: with fail_fast off, an Error for a forbidden tag or a disallowed
\* attribute stops the descent into that element's subtree only; sibling
\* subtrees are still checked, so violations in two sibling branches
\* yield one Error each.
C26_SiblingBranchesChecked ==
    TreeWalked =>
        {ProbeErrors[i].msg : i \in 1..Len(ProbeErrors)} =
            Range(BranchErrors(HtmlInfo(probe.value).tree))

----------------------------------------------------------------------------
(* The scope of the current path. *)

\* The field and the message of the Error of a metadata entry; <<>> for an
\* entry without one.
MetadataFault(entry) ==
    CASE entry = MetadataEntryOf("nondict") -> <<"value", "Entries must be dictionaries.">>
      [] entry = MetadataEntryOf("nolabel") -> <<"label", "metadata entries must have labels.">>
      [] entry = MetadataEntryOf("novalue") -> <<"value", "metadata entries must have values">>
      [] entry = MetadataEntryOf("badlabel") ->
             <<"label", "Illegal type (should be str, list, or dict)">>
      [] OTHER -> <<>>

\* The Errors of the entries from the i-th on, each at
\* path + 'metadata' + index + field.
RECURSIVE MetadataErrors(_, _, _)
MetadataErrors(path, items, i) ==
    IF i > Len(items) THEN <<>>
    ELSE LET f == MetadataFault(items[i])
             at == PathAdd(PathAdd(path, Field("metadata")), Index(i - 1))
         IN  (IF f = <<>> THEN <<>>
              ELSE <<Entry(Msg(f[2], <<>>), PathAdd(at, Field(f[1])))>>)
                 \o MetadataErrors(path, items, i + 1)

ExpectedMetadataErrors ==
    IF isinstance(probe.value, "list") THEN MetadataErrors(probe.path, probe.value.items, 1)
    ELSE <<Entry(Msg("Metadata MUST be a list", <<>>), PathAdd(probe.path, Field("metadata")))>>

\* C27: the current path is scoped.  After metadata_field, after
\* _check_html and after _check_all_key_constraints, returned or unwound
\* by FailFastException, the validator's path is the one it had before;
\* the Errors of metadata entry i are logged at path + 'metadata' + i +
\* field: all of them in order with fail_fast off (one per
\* index-insensitive path and message under unique logging), the first
\* one alone with fail_fast on.
C27_PathScoped ==
    /\ probe.op \in {"metadata", "html", "keys"} => inst[probe.self].path = probe.path
    /\ (probe.op = "metadata" /\ cfg.collect_errors) =>
           LET exp == ExpectedMetadataErrors
           IN  /\ Range(ProbeErrors) \subseteq Range(exp)
               /\ ~cfg.fail_fast =>
                      /\ {EntryKey(e) : e \in Range(ProbeErrors)} =
                             {EntryKey(e) : e \in Range(exp)}
                      /\ exc = "none"
               /\ (~cfg.fail_fast /\ ~cfg.unique_logging) => ProbeErrors = exp
               /\ (cfg.fail_fast /\ exp # <<>>) =>
                      /\ ProbeErrors = <<exp[1]>>
                      /\ exc = "FailFastException"

\* metadata_field has been unwound by FailFastException from the second
\* entry of a list at ('sequences', 0), whose Error is at
\* ('sequences', 0, 'metadata', 1, 'label'), and the path is back.
C27_Witness ==
    /\ probe.op = "metadata"
    /\ probe.path = <<Field("sequences"), Index(0)>>
    /\ exc = "FailFastException"
    /\ inst[probe.self].path = probe.path
    /\ ProbeErrors =
           <<Entry(Msg("metadata entries must have labels.", <<>>),
                   <<Field("sequences"), Index(0), Field("metadata"), Index(1), Field("label")>>)>>

----------------------------------------------------------------------------
(* The canvas of an annotation. *)

OnError == Msg("'on' must reference the canvas URI.", <<>>)

\* The annotation validator's _validate has just ended, called for an
\* annotation with an 'on' in the 'images' of a canvas with a non-empty
\* '@id', with Errors collected and fail_fast off.
AnnotationEnded ==
    /\ Len(stack) >= 2
    /\ Top.self = "annotation"
    /\ Top.status = "done"
    /\ cfg.collect_errors
    /\ ~cfg.fail_fast
    /\ isinstance(Top.value, "dict")
    /\ "on" \in DOMAIN Top.value.d
    /\ LET canvas == stack[Len(stack) - 1]
       IN  /\ canvas.self = "canvas"
           /\ isinstance(canvas.value, "dict")
           /\ Truthy(Get(canvas.value, "@id"))

\* C28: an annotation in the 'images' of a canvas is checked against the
\* '@id' of that canvas: the Error "'on' must reference the canvas URI."
\* is logged exactly when its 'on' differs from it, whatever canvases the
\* shared validators have seen before.
C28_OnChecksOwnCanvas ==
    AnnotationEnded =>
        ((\E e \in LogSet(inst["annotation"].errors) : e.msg = OnError)
            <=> Top.value.d["on"] # stack[Len(stack) - 1].value.d["@id"])


----------------------------------------------------------------------------
(* The chain of active _validate calls. *)

\* C29: no validator instance is re-entered: the chain of active _validate
\* calls holds each validator at most once, and a validator whose call is
\* waiting in the loop of a list field still holds the fragment and the
\* path of that call.
C29_NoReentrance ==
    /\ \A i, j \in 1..Len(stack) : i # j => stack[i].self # stack[j].self
    /\ \A k \in 1..Len(stack) :
           stack[k].status = "loop" =>
               /\ inst[stack[k].self].json = stack[k].value
               /\ inst[stack[k].self].path = stack[k].given

\* The chain at its longest: manifest, sequence, canvas, annotation and
\* image content, in the second top-level call.
C29_Witness ==
    /\ Len(stack) = 5
    /\ [k \in 1..5 |-> stack[k].self] =
           <<"manifest", "sequence", "canvas", "annotation", "image_content">>
    /\ runs = 1

----------------------------------------------------------------------------
(* The image service of a thumbnail or logo. *)

\* The Error of an image service without '@id'.
ServiceIdError == Msg("Key '{}' is required in '{}'", <<Str("@id"), Str("image service")>>)

\* The top-level call on a manifest whose 'thumbnail' has an IIIF image
\* service without '@id' has ended, with Errors collected and fail_fast
\* off.
ThumbnailServiceChecked ==
    /\ Ended
    /\ cfg.collect_errors
    /\ ~cfg.fail_fast
    /\ isinstance(hist.doc, "dict")
    /\ LET thumbnail == Get(hist.doc, "thumbnail")
       IN  /\ isinstance(thumbnail, "dict")
           /\ isinstance(Get(thumbnail, "service"), "dict")
           /\ Get(Get(thumbnail, "service"), "@context") = Str(IMAGE_API_2)
           /\ "@id" \notin DOMAIN Get(thumbnail, "service").d

\* C30: the diagnostics of the image service of a 'thumbnail' or 'logo'
\* are logged by the validator of the resource that has the field, below
\* that resource's path, and reach the top-level diagnostics: the Error
\* of a manifest thumbnail's service is in the manifest's log, below
\* ('thumbnail'), and no validator has it at another path.
C30_ServiceDiagnosticsReachTop ==
    ThumbnailServiceChecked =>
        /\ \E e \in LogSet(inst["manifest"].errors) :
               e.msg = ServiceIdError /\ Head(e.path) = Field("thumbnail")
        /\ \A v \in Validators : \A e \in LogSet(inst[v].errors) :
               e.msg = ServiceIdError => Head(e.path) = Field("thumbnail")
====
